---- MODULE Spec2Model ----
(***************************************************************************)
(* The per-camera recorder of droidcam-sentry (package recorder,           *)
(* VideoRecorder): the container/ring pre-buffer, the recording flag, the  *)
(* video writer (sink), the frames-since-motion counter and the hand-off   *)
(* of a finished file to the AVI->MP4 conversion goroutine.                *)
(*                                                                         *)
(* Frames are numbered in the order AddFrame receives them: frame k is the *)
(* k-th Mat passed to AddFrame, and its clone in the ring carries the same *)
(* number.  The frames passed in are the Mats Stream.ReadFrame returns,    *)
(* which are never empty (stream.go:107-113); the Empty() tests of the     *)
(* recorder are kept as written.                                           *)
(*                                                                         *)
(* fps is a float64 in the source; here it is a fixed-point number with    *)
(* FpsScale units per frame-per-second, so that int(fps) truncates.        *)
(*                                                                         *)
(* Around the recorder, the fleet Manager (package monitor): the registry  *)
(* of CameraMonitors, the control calls StartCamera, StopCamera, Stop,     *)
(* Enable/DisableMotionDetection, GetStatus, Subscribe and Unsubscribe,    *)
(* each monitor's loop (read, reconnect, back-off, the tick's calls on the *)
(* recorder, the live fan-out to subscribers), the health cache, and the   *)
(* motion Detector's rate limit (package motion), and the API server's     *)
(* play, download and delete handlers with their path validation (package  *)
(* server).  Each part has its own specification; the variables of the     *)
(* other parts stand still in it.                                          *)
(***************************************************************************)
EXTENDS Integers, Naturals, Sequences, FiniteSets, TLC

VARIABLES
    fps,                \* VideoRecorder.FPS, in units of 1/FpsScale
    pre,                \* VideoRecorder.PreBufferSeconds
    post,               \* VideoRecorder.PostBufferSeconds
    ring,               \* the slots of preBuffer (*ring.Ring); <<>> is the nil ring
    cur,                \* the slot preBuffer points at (0 for the nil ring)
    writer,             \* VideoRecorder.writer: 0 is nil, else an index into sinks
    sinks,              \* every gocv.VideoWriter opened so far, in opening order, with
                        \* the frames written to it; startAt/endAt: frames added when
                        \* it was opened/closed
    isRecording,        \* VideoRecorder.isRecording
    framesSinceMotion,  \* VideoRecorder.framesSinceMotion
    currentFile,        \* VideoRecorder.currentFile (NoFile is "")
    handoffs,           \* files given to a convertAVItoMP4 goroutine, in order
    closeCount,         \* closeCount[k]: Close() calls on the ring's clone of frame k
    added,              \* number of frames stored by AddFrame so far
    clock,              \* the latest reading of time.Now(), in whole seconds
    panicked,           \* a nil-pointer dereference ended the process
    closed,             \* VideoRecorder.Close has run
    ret,                \* what the last operation returned, and which it was
    updatesSince,       \* Update calls of the session since its start or last OnMotion
    motionReset,        \* an OnMotion of the session came after an Update of it
    mu,                 \* VideoRecorder.mu: 0 is unlocked, else the task holding it
    pc                  \* where each concurrent AddFrame caller stands, and its frame

\* the recorder
recorder == <<fps, pre, post, ring, cur, writer, sinks, isRecording, framesSinceMotion,
              currentFile, handoffs, closeCount, added, clock, panicked, closed, ret,
              updatesSince, motionReset, mu, pc>>

VARIABLES
    monitors,           \* Manager.monitors: camera name -> monitor (0: no entry)
    mon,                \* every CameraMonitor created so far, by creation number
    ctl,                \* the control call that holds Manager.mu for writing, if any
    reply,              \* what the Manager call that has just returned returned, and
                        \* which it was (NoReply after a step that returns nothing)
    healthCache,        \* Manager.healthCache: camera name -> result, if any
    status              \* the cameras list GetStatus has just returned (<<>> after
                        \* any other step of the manager)

\* the fleet manager
manager == <<monitors, mon, ctl, reply, healthCache, status>>

VARIABLES
    cam                 \* one camera's monitor seen with its recorder: the
                        \* MotionDetectEnabled flag, where its loop stands in the
                        \* tick, and where a DisableMotionDetection call stands

VARIABLES
    det,                \* a motion.Detector: its interval, lastDetection, when it last
                        \* evaluated the background model, the clock, and what the
                        \* Detect call that has just returned did
    fan                 \* one monitor's live fan-out: monitor.subscribers, every
                        \* channel Subscribe has made, the ticks so far and where the
                        \* loop stands in the broadcast

VARIABLES
    srv                 \* the API server's recording handlers: the paths that exist
                        \* on disk, and the last request with its file parameter,
                        \* the status it was answered with and what it read

vars == <<recorder, manager, cam, det, fan, srv>>

\* what a step of the recorder alone, of the manager alone, or of one monitor
\* with its recorder leaves as it is
besidesRecorder == <<manager, cam, det, fan, srv>>
besidesManager == <<recorder, cam, det, fan, srv>>
besidesMonitor == <<manager, det, fan, srv>>

\* ---------------------------------------------------------------- bounds
FpsScale == 2
MaxSeconds == 2
MaxFrames == 3
MaxSinks == 2
NumTasks == 2
NumCameras == 2
MaxMonitors == 2
MaxInterval == 2
MaxTime == 4
MaxSubscribers == 2
MaxTicks == 6
MaxSegment == 2
MaxDepth == 2

\* conversions started
MaxHandoffs == MaxSinks

\* fps values: below 1, between two integers, and integral
FpsValues == {FpsScale - 1, FpsScale + 1, 2 * FpsScale}
Tasks == 1..NumTasks
\* what time.Now() can read: one clock second and the next
Times == {0, 1}
\* gocv.VideoWriterFile: a writer that is open, an error, or a writer that is not open
OpenResults == {"opened", "error", "notOpened"}

\* ---------------------------------------------------------------- values
NoFile == 0
EmptyMat == -1

Empty(m) == m = EmptyMat

\* fmt.Sprintf("%s_%s.avi", r.Name, time.Now().Format("20060102_150405")):
\* one name per clock second.
FileName(t) == t + 1

\* int(fps): truncation of the float64 toward zero.
IntOf(f) == f \div FpsScale

\* bufferSize := int(fps) * preBuffer
BufferSizeRounded(f, p) == (2 * f * p + FpsScale) \div (2 * FpsScale)
BufferSize(f, p) == IntOf(f) * p

\* maxFrames := int(r.FPS) * r.PostBufferSeconds
PostFramesOfProduct(f, p) == (f * p) \div FpsScale
PostFrames(f, p) == IntOf(f) * p

\* r.framesSinceMotion = 0 (OnMotion); n is the counter before the call
OnMotionCounterKept(n) == n
OnMotionCounter(n) == 0

\* ring.New(n): n slots holding nil (0); nil ring (<<>>) when n <= 0.
RingNew(n) == [i \in 1..n |-> 0]

Capacity == Len(ring)

\* r.Next()
RingNext(c, n) == (c % n) + 1

\* r.Do(f): the values of the ring in forward order, starting at the slot the
\* ring pointer is at; nothing for the nil ring.
RingDoFromFirst(rg, c) == rg
RingDo(rg, c) == [i \in 1..Len(rg) |-> rg[((c + i - 2) % Len(rg)) + 1]]

IsFrame(v) == v # 0 /\ ~Empty(v)

\* The ring after r.preBuffer.Do(func(val interface{}) {...}) in StartRecording:
\* the callbacks read val (its Cols, Rows; writer.Write(mat)) and store nothing.
DrainedEmptied(rg) == RingNew(Len(rg))
Drained(rg) == rg

\* The values StartRecording's two Do loops accept: val != nil, a Mat, not Empty.
PreBufferFrames(rg, c) == SelectSeq(RingDo(rg, c), IsFrame)

\* width == 0 || height == 0 after the first Do loop.
NoValidFramesNever(rg, c) == FALSE
NoValidFrames(rg, c) == PreBufferFrames(rg, c) = <<>>

\* if r.isRecording { return nil }
AlreadyRecordingNever == FALSE
AlreadyRecording == isRecording

\* r.isRecording && r.writer != nil && !frame.Empty()
ShouldWriteNever(frame) == FALSE
ShouldWrite(frame) == isRecording /\ writer # 0 /\ ~Empty(frame)

\* if !r.isRecording { return false }
UpdateIdleNever == FALSE
UpdateIdle == ~isRecording

\* sync.Mutex: Lock returns only while no one holds the mutex.
MuAvailableAlways == TRUE
MuAvailable == mu = 0

Alive == ~panicked /\ ~closed

Ret(o, v) == [op |-> o, val |-> v]
\* nothing has been called yet
NoRet == Ret("", "")

\* oldMat.Close() / mat.Close() on the ring's clone of frame k
CloseMat(cc, k) == [cc EXCEPT ![k] = @ + 1]

\* a task outside AddFrame
AtRest == [at |-> "idle", frame |-> 0]

conc == <<mu, pc>>
config == <<fps, pre, post>>
observed == <<updatesSince, motionReset>>

\* ---------------------------------------------------------------- the manager's values
\* cfg.Cameras: the configured camera names; one more name is in no configuration
Configured == 1..NumCameras
Names == 1..(NumCameras + 1)
Mons == 1..MaxMonitors

\* health.CheckResult as GetStatus passes it on: reachable or not
HealthResults == {"reachable", "unreachable"}
\* no entry in healthCache, no "health" key in a camStatus
NoHealth == "none"

\* a CameraMonitor that has not been created
NoMonitor == [name |-> 0, running |-> FALSE, motion |-> FALSE, stopClosed |-> FALSE,
              streamOpen |-> FALSE, recording |-> FALSE, loop |-> "none"]

\* no control call holds Manager.mu
NoCall == [op |-> "none", name |-> 0, m |-> 0, todo |-> {}]

Reply(o, n, v) == [op |-> o, name |-> n, val |-> v]
NoReply == Reply("", 0, "")

\* NewManager: no monitor, empty caches
NewManager ==
    /\ monitors = [n \in Names |-> 0]
    /\ mon = [m \in Mons |-> NoMonitor]
    /\ ctl = NoCall
    /\ reply = NoReply
    /\ healthCache = [n \in Names |-> NoHealth]
    /\ status = <<>>

NoManager == NewManager

\* a running monitor with motion detection on (startMonitor), its loop at the select,
\* no DisableMotionDetection call under way
\* (open: the stream is open; stop: how far stopMonitor has come; read, calls,
\* mat: in the current tick, what ReadFrame gave, the calls made so far and the
\* Close() calls on the Mat ReadFrame returned, -1 before the first tick;
\* drain: the slots the Do loop of recorder.Close has visited, -1 outside it;
\* from: the slot it started at; quiet: the scene has come to rest, Detect
\* reports no motion from now on)
NewCameraMonitor == [enabled |-> TRUE, loop |-> "select", dis |-> "none",
                     wasRecording |-> FALSE, open |-> TRUE, stop |-> "none",
                     read |-> "none", calls |-> <<>>, mat |-> 0 - 1,
                     drain |-> 0 - 1, from |-> 0, quiet |-> FALSE]
NoCamera == cam = NewCameraMonitor

\* time.Time{}: the zero time, further in the past than any interval
ZeroTime == 0 - (MaxInterval + 1)
\* NewDetector(name, threshold, minArea, intervalMs): lastDetection is the zero time
NewDetector(intervalMs) == [interval |-> intervalMs, lastDetection |-> ZeroTime,
                            lastEvaluation |-> ZeroTime, now |-> 0, out |-> "none"]
NoDetector == det = NewDetector(0)

\* make(chan []byte, 5)
QueueCapacity == 5

Chans == 1..MaxSubscribers
\* a channel Subscribe has not made yet
NoChan == [state |-> "none", queue |-> <<>>]
\* a monitor as startMonitor makes it: no subscribers, entered in m.monitors
NewFanOut == [subscribers |-> <<>>, chan |-> [c \in Chans |-> NoChan], tick |-> 0,
              loop |-> "select", registered |-> TRUE]
NoFanOut == fan = NewFanOut

\* ---------------------------------------------------------------- the server's values
\* A path is the sequence of its segments, a segment a sequence of characters;
\* the string it stands for is "/" + segment + "/" + segment ...
PathChars == {"a", "b"}
Segments == UNION {[1..n -> PathChars] : n \in 1..MaxSegment}
DotDot == <<".", ".">>
\* the absolute paths a request's file parameter can name
Paths == UNION {[1..n -> Segments \cup {DotDot}] : n \in 1..MaxDepth}

\* cfg.Cameras[i].Recording.Path: /a for the first camera, /ba for the second
RecordingPaths == << << <<"a">> >>, << <<"b", "a">> >> >>

\* what is on disk when the server starts: the recording directories with a
\* file in each, a directory /ab beside /a with a file in it, and a directory
\* /b with a file in it
OnDisk == { <<>>,
            << <<"a">> >>, << <<"a">>, <<"a">> >>,
            << <<"b", "a">> >>, << <<"b", "a">>, <<"b">> >>,
            << <<"a", "b">> >>, << <<"a", "b">>, <<"a">> >>,
            << <<"b">> >>, << <<"b">>, <<"a">> >> }

\* no request has been handled
NewServer == [disk |-> OnDisk, handler |-> "none", given |-> FALSE, file |-> <<>>,
              code |-> "none", read |-> {}]
NoServer == srv = NewServer

\* ---------------------------------------------------------------- NewRecorder
NewRecorder(f, preBuffer, postBuffer) ==
    /\ fps = f
    /\ pre = preBuffer
    /\ post = postBuffer
    /\ ring = RingNew(BufferSize(fps, pre))
    /\ cur = IF BufferSize(fps, pre) > 0 THEN 1 ELSE 0
    /\ writer = 0
    /\ sinks = <<>>
    /\ isRecording = FALSE
    /\ framesSinceMotion = 0
    /\ currentFile = NoFile
    /\ handoffs = <<>>
    /\ closeCount = [k \in 1..MaxFrames |-> 0]
    /\ added = 0
    /\ clock = 0
    /\ panicked = FALSE
    /\ closed = FALSE
    /\ ret = NoRet
    /\ updatesSince = 0
    /\ motionReset = FALSE
    /\ mu = 0
    /\ pc = [t \in Tasks |-> AtRest]

\* a recorder alone, with no manager around it
Init ==
    /\ \E f \in FpsValues, preBuffer \in 0..MaxSeconds, postBuffer \in 0..MaxSeconds :
          NewRecorder(f, preBuffer, postBuffer)
    /\ NoManager
    /\ NoCamera
    /\ NoDetector
    /\ NoFanOut
    /\ NoServer

\* ---------------------------------------------------------------- AddFrame
AddFrame ==
    /\ Alive /\ MuAvailable
    /\ added < MaxFrames
    /\ IF Capacity = 0
       THEN \* r.preBuffer is nil: r.preBuffer.Value dereferences it
            /\ panicked' = TRUE
            /\ ret' = Ret("AddFrame", "panic")
            /\ UNCHANGED <<ring, cur, closeCount, added, sinks>>
       ELSE LET frame == added + 1
                old == ring[cur]
            IN /\ closeCount' = IF IsFrame(old) THEN CloseMat(closeCount, old)
                                ELSE closeCount
               /\ ring' = [ring EXCEPT ![cur] = frame]
               /\ cur' = RingNext(cur, Capacity)
               /\ added' = frame
               /\ sinks' = IF ShouldWrite(frame)
                           THEN [sinks EXCEPT ![writer].frames = Append(@, frame)]
                           ELSE sinks
               /\ ret' = Ret("AddFrame", "")
               /\ UNCHANGED panicked
    /\ UNCHANGED <<config, writer, isRecording, framesSinceMotion, currentFile,
                   handoffs, clock, closed, observed, conc>>

\* ---------------------------------------------------------------- StartRecording
StartRecording(now, dirOk, openRes) ==
    /\ Alive /\ MuAvailable
    /\ now >= clock
    /\ isRecording \/ Len(sinks) < MaxSinks
    /\ IF AlreadyRecording
       THEN /\ ret' = Ret("StartRecording", "ok")
            /\ UNCHANGED <<clock, currentFile, sinks, writer, isRecording,
                           framesSinceMotion, observed>>
       ELSE IF ~dirOk
       THEN /\ ret' = Ret("StartRecording", "MkdirFailed")
            /\ UNCHANGED <<clock, currentFile, sinks, writer, isRecording,
                           framesSinceMotion, observed>>
       ELSE /\ clock' = now
            /\ currentFile' = FileName(now)
            /\ IF NoValidFrames(ring, cur)
               THEN /\ ret' = Ret("StartRecording", "NoPreBufferFrames")
                    /\ UNCHANGED <<sinks, writer, isRecording, framesSinceMotion,
                                   observed>>
               ELSE IF openRes # "opened"
               THEN /\ ret' = Ret("StartRecording", IF openRes = "error"
                                                    THEN "SinkOpenFailed"
                                                    ELSE "SinkNotOpened")
                    /\ UNCHANGED <<sinks, writer, isRecording, framesSinceMotion,
                                   observed>>
               ELSE /\ sinks' = Append(sinks, [file |-> FileName(now),
                                               frames |-> PreBufferFrames(ring, cur),
                                               open |-> TRUE,
                                               startAt |-> added,
                                               endAt |-> 0])
                    /\ writer' = Len(sinks) + 1
                    /\ isRecording' = TRUE
                    /\ framesSinceMotion' = 0
                    /\ updatesSince' = 0
                    /\ motionReset' = FALSE
                    /\ ret' = Ret("StartRecording", "ok")
    /\ ring' = IF AlreadyRecording \/ ~dirOk THEN ring ELSE Drained(ring)
    /\ UNCHANGED <<config, cur, handoffs, closeCount, added, panicked,
                   closed, conc>>

\* ---------------------------------------------------------------- OnMotion
OnMotion ==
    /\ Alive /\ MuAvailable
    /\ framesSinceMotion' = OnMotionCounter(framesSinceMotion)
    /\ updatesSince' = 0
    /\ motionReset' = (motionReset \/ (isRecording /\ updatesSince > 0))
    /\ ret' = Ret("OnMotion", "")
    /\ UNCHANGED <<config, ring, cur, writer, sinks, isRecording, currentFile,
                   handoffs, closeCount, added, clock, panicked, closed, conc>>

\* ---------------------------------------------------------------- stopRecording
stopRecordingKeepsWriter ==
    /\ sinks' = sinks
    /\ writer' = writer
    /\ isRecording' = FALSE
    /\ handoffs' = IF currentFile # NoFile THEN Append(handoffs, currentFile)
                   ELSE handoffs
stopRecording ==
    /\ sinks' = IF writer # 0
                THEN [sinks EXCEPT ![writer].open = FALSE, ![writer].endAt = added]
                ELSE sinks
    /\ writer' = 0
    /\ isRecording' = FALSE
    /\ handoffs' = IF currentFile # NoFile THEN Append(handoffs, currentFile)
                   ELSE handoffs

\* ---------------------------------------------------------------- Update
Update ==
    /\ Alive /\ MuAvailable
    /\ Len(handoffs) < MaxHandoffs
    /\ IF UpdateIdle
       THEN /\ ret' = Ret("Update", "false")
            /\ UNCHANGED <<framesSinceMotion, observed, sinks, writer,
                           isRecording, handoffs>>
       ELSE /\ framesSinceMotion' = framesSinceMotion + 1
            /\ updatesSince' = updatesSince + 1
            /\ IF framesSinceMotion + 1 >= PostFrames(fps, post)
               THEN /\ stopRecording
                    /\ motionReset' = FALSE
                    /\ ret' = Ret("Update", "true")
               ELSE /\ ret' = Ret("Update", "false")
                    /\ UNCHANGED <<sinks, writer, isRecording, handoffs, motionReset>>
    /\ UNCHANGED <<config, ring, cur, currentFile, closeCount, added, clock,
                   panicked, closed, conc>>

\* ---------------------------------------------------------------- Stop
Stop ==
    /\ Alive /\ MuAvailable
    /\ Len(handoffs) < MaxHandoffs
    /\ stopRecording
    /\ motionReset' = FALSE
    /\ ret' = Ret("Stop", "")
    /\ UNCHANGED <<config, ring, cur, framesSinceMotion, currentFile, closeCount,
                   added, clock, panicked, closed, updatesSince, conc>>

\* ---------------------------------------------------------------- IsRecording
\* return r.isRecording (read under the mutex)
IsRecording == isRecording

\* ---------------------------------------------------------------- Close
RECURSIVE CloseAll(_, _)
CloseAll(cc, fs) ==
    IF fs = <<>> THEN cc ELSE CloseAll(CloseMat(cc, Head(fs)), Tail(fs))

Close ==
    /\ Alive /\ MuAvailable
    /\ Len(handoffs) < MaxHandoffs
    /\ stopRecording
    /\ closeCount' = CloseAll(closeCount, PreBufferFrames(ring, cur))
    /\ closed' = TRUE
    /\ motionReset' = FALSE
    /\ ret' = Ret("Close", "")
    /\ UNCHANGED <<config, ring, cur, framesSinceMotion, currentFile, added, clock,
                   panicked, updatesSince, conc>>

Next ==
    \/ AddFrame /\ UNCHANGED besidesRecorder
    \/ \E now \in Times, dirOk \in BOOLEAN, openRes \in OpenResults :
          StartRecording(now, dirOk, openRes) /\ UNCHANGED besidesRecorder
    \/ OnMotion /\ UNCHANGED besidesRecorder
    \/ Update /\ UNCHANGED besidesRecorder
    \/ Stop /\ UNCHANGED besidesRecorder
    \/ Close /\ UNCHANGED besidesRecorder

Spec == Init /\ [][Next]_vars

\* ---------------------------------------------------------------- AddFrame, step by step
\* The same method as run by concurrent callers: r.mu.Lock(), then the body one
\* memory access at a time, then the deferred r.mu.Unlock().
CCall(t) ==
    /\ Alive
    /\ pc[t].at = "idle"
    /\ added + Cardinality({u \in Tasks : pc[u].at = "waiting"}) < MaxFrames
    /\ pc' = [pc EXCEPT ![t].at = "waiting"]
    /\ UNCHANGED <<config, ring, cur, writer, sinks, isRecording, framesSinceMotion,
                   currentFile, handoffs, closeCount, added, clock, panicked, closed,
                   ret, observed, mu>>

CLock(t) ==
    /\ Alive /\ MuAvailable
    /\ pc[t].at = "waiting"
    /\ mu' = t
    /\ pc' = [pc EXCEPT ![t] = [at |-> "locked", frame |-> added + 1]]
    /\ added' = added + 1
    /\ ret' = Ret("AddFrame", "")
    /\ UNCHANGED <<config, ring, cur, writer, sinks, isRecording, framesSinceMotion,
                   currentFile, handoffs, closeCount, clock, panicked, closed,
                   observed>>

CRelease(t) ==
    /\ Alive
    /\ pc[t].at = "locked"
    /\ IF Capacity = 0
       THEN /\ panicked' = TRUE
            /\ mu' = 0
            /\ ret' = Ret("AddFrame", "panic")
            /\ UNCHANGED <<closeCount, pc>>
       ELSE /\ closeCount' = IF IsFrame(ring[cur]) THEN CloseMat(closeCount, ring[cur])
                                ELSE closeCount
            /\ pc' = [pc EXCEPT ![t].at = "released"]
            /\ UNCHANGED <<panicked, mu, ret>>
    /\ UNCHANGED <<config, ring, cur, writer, sinks, isRecording, framesSinceMotion,
                   currentFile, handoffs, added, clock, closed, observed>>

CStore(t) ==
    /\ Alive
    /\ pc[t].at = "released"
    /\ ring' = [ring EXCEPT ![cur] = pc[t].frame]
    /\ pc' = [pc EXCEPT ![t].at = "stored"]
    /\ UNCHANGED <<config, cur, writer, sinks, isRecording, framesSinceMotion,
                   currentFile, handoffs, closeCount, added, clock, panicked, closed,
                   ret, observed, mu>>

CAdvance(t) ==
    /\ Alive
    /\ pc[t].at = "stored"
    /\ cur' = RingNext(cur, Capacity)
    /\ pc' = [pc EXCEPT ![t].at = "advanced"]
    /\ UNCHANGED <<config, ring, writer, sinks, isRecording, framesSinceMotion,
                   currentFile, handoffs, closeCount, added, clock, panicked, closed,
                   ret, observed, mu>>

CWrite(t) ==
    /\ Alive
    /\ pc[t].at = "advanced"
    /\ sinks' = IF ShouldWrite(pc[t].frame)
                THEN [sinks EXCEPT ![writer].frames = Append(@, pc[t].frame)]
                ELSE sinks
    /\ pc' = [pc EXCEPT ![t].at = "written"]
    /\ UNCHANGED <<config, ring, cur, writer, isRecording, framesSinceMotion,
                   currentFile, handoffs, closeCount, added, clock, panicked, closed,
                   ret, observed, mu>>

CUnlock(t) ==
    /\ Alive
    /\ pc[t].at = "written"
    /\ mu' = 0
    /\ pc' = [pc EXCEPT ![t] = AtRest]
    /\ UNCHANGED <<config, ring, cur, writer, sinks, isRecording, framesSinceMotion,
                   currentFile, handoffs, closeCount, added, clock, panicked, closed,
                   ret, observed>>

NextConc ==
    \/ \E t \in Tasks : CCall(t) /\ UNCHANGED besidesRecorder
    \/ \E t \in Tasks : CLock(t) /\ UNCHANGED besidesRecorder
    \/ \E t \in Tasks : CRelease(t) /\ UNCHANGED besidesRecorder
    \/ \E t \in Tasks : CStore(t) /\ UNCHANGED besidesRecorder
    \/ \E t \in Tasks : CAdvance(t) /\ UNCHANGED besidesRecorder
    \/ \E t \in Tasks : CWrite(t) /\ UNCHANGED besidesRecorder
    \/ \E t \in Tasks : CUnlock(t) /\ UNCHANGED besidesRecorder
    \/ \E now \in Times, dirOk \in BOOLEAN, openRes \in OpenResults :
          StartRecording(now, dirOk, openRes) /\ UNCHANGED besidesRecorder
    \/ Stop /\ UNCHANGED besidesRecorder

SpecConc == Init /\ [][NextConc]_vars

\* ================================================================ the fleet manager
\* Manager (package surveillance): the registry of camera monitors under
\* Manager.mu, the control calls, and each monitor's loop goroutine.  A call that
\* takes Manager.mu for writing and then waits (for a stream to open, for a
\* stream's lock) is in ctl between its steps.  Here a monitor's recorder is seen
\* only through IsRecording.

\* m.mu.Lock() returns: no other writer (readers do not wait inside their calls)
ManagerMuFree == ctl.op = "none"

\* Stream.mu is held by the loop for the length of capture.Read (shared) and of
\* gocv.OpenVideoCapture (exclusive)
StreamReadLocked(m) == mon[m].loop = "reading"
StreamWriteLocked(m) == mon[m].loop = "opening"

\* monitor, exists := m.monitors[cameraName]
Exists(n) == monitors[n] # 0

\* exists && monitor.running
IsRunningExistsOnly(n) == Exists(n)
IsRunning(n) == Exists(n) /\ mon[monitors[n]].running

\* camCfg != nil after the search of cfg.Cameras
InConfiguration(n) == n \in Configured

\* the next CameraMonitor to be created (0: as many as the model allows exist)
NewMon == IF \E m \in Mons : mon[m].loop = "none"
          THEN CHOOSE m \in Mons : mon[m].loop = "none" /\ \A k \in 1..(m - 1) : mon[k].loop # "none"
          ELSE 0

\* stopMonitor, first half: close(monitor.stopChan); monitor.running = false
SignalledRunningOnly(r) == [r EXCEPT !.running = FALSE]
Signalled(r) == [r EXCEPT !.stopClosed = TRUE, !.running = FALSE]

\* stopMonitor, second half: stream.Close(), detector.Close(), recorder.Close()
Released(r) == [r EXCEPT !.streamOpen = FALSE, !.recording = FALSE]

\* ---------------------------------------------------------------- StartCamera
\* up to the call of stream.Open() inside startMonitor
StartCameraBegin(n) ==
    /\ ManagerMuFree
    /\ IF IsRunning(n)
       THEN /\ reply' = Reply("StartCamera", n, "AlreadyRunning")
            /\ UNCHANGED ctl
       ELSE IF ~InConfiguration(n)
       THEN /\ reply' = Reply("StartCamera", n, "NotFound")
            /\ UNCHANGED ctl
       ELSE /\ NewMon # 0
            /\ ctl' = [NoCall EXCEPT !.op = "StartCamera", !.name = n]
            /\ reply' = NoReply
    /\ status' = <<>>
    /\ UNCHANGED <<monitors, mon, healthCache>>

\* stream.Open() returns; the rest of startMonitor
StartCameraOpened(ok) ==
    /\ ctl.op = "StartCamera"
    /\ IF ~ok
       THEN /\ reply' = Reply("StartCamera", ctl.name, "SourceOpenFailed")
            /\ UNCHANGED <<monitors, mon>>
       ELSE /\ mon' = [mon EXCEPT ![NewMon] =
                          [name |-> ctl.name, running |-> TRUE, motion |-> TRUE,
                           stopClosed |-> FALSE, streamOpen |-> TRUE,
                           recording |-> FALSE, loop |-> "select"]]
            /\ monitors' = [monitors EXCEPT ![ctl.name] = NewMon]
            /\ reply' = Reply("StartCamera", ctl.name, "ok")
    /\ ctl' = NoCall
    /\ status' = <<>>
    /\ UNCHANGED healthCache

\* ---------------------------------------------------------------- StopCamera
\* up to stream.Close() inside stopMonitor
StopCameraBegin(n) ==
    /\ ManagerMuFree
    /\ IF ~Exists(n)
       THEN /\ reply' = Reply("StopCamera", n, "NotFound")
            /\ UNCHANGED <<ctl, mon>>
       ELSE IF ~mon[monitors[n]].running
       THEN /\ reply' = Reply("StopCamera", n, "NotRunning")
            /\ UNCHANGED <<ctl, mon>>
       ELSE /\ mon' = [mon EXCEPT ![monitors[n]] = Signalled(@)]
            /\ ctl' = [NoCall EXCEPT !.op = "StopCamera", !.name = n, !.m = monitors[n]]
            /\ reply' = NoReply
    /\ status' = <<>>
    /\ UNCHANGED <<monitors, healthCache>>

\* stream.Close() gets Stream.mu; the rest of stopMonitor; delete(m.monitors, name)
StopCameraDelete(n) == [monitors EXCEPT ![n] = 0]

StopCameraFinish ==
    /\ ctl.op = "StopCamera"
    /\ ~StreamReadLocked(ctl.m) /\ ~StreamWriteLocked(ctl.m)
    /\ mon' = [mon EXCEPT ![ctl.m] = Released(@)]
    /\ monitors' = StopCameraDelete(ctl.name)
    /\ reply' = Reply("StopCamera", ctl.name, "ok")
    /\ ctl' = NoCall
    /\ status' = <<>>
    /\ UNCHANGED healthCache

\* ---------------------------------------------------------------- Manager.Stop
\* m.mu.Lock(); the range over m.monitors visits every entry once, in any order
ManagerStopBegin ==
    /\ ManagerMuFree
    /\ \E n \in Names : Exists(n)
    /\ ctl' = [NoCall EXCEPT !.op = "Stop", !.todo = {monitors[n] : n \in {k \in Names : Exists(k)}}]
    /\ status' = <<>>
    /\ reply' = NoReply
    /\ UNCHANGED <<monitors, mon, healthCache>>

\* stopMonitor: if !monitor.running { return }
NotRunningNever(m) == FALSE
NotRunning(m) == ~mon[m].running

\* stopMonitor(monitor) up to stream.Close(); nothing for a monitor not running
ManagerStopSignal(m) ==
    /\ ctl.op = "Stop" /\ ctl.m = 0
    /\ m \in ctl.todo
    /\ IF NotRunning(m)
       THEN /\ ctl' = [ctl EXCEPT !.todo = @ \ {m}]
            /\ UNCHANGED mon
       ELSE /\ mon' = [mon EXCEPT ![m] = Signalled(@)]
            /\ ctl' = [ctl EXCEPT !.m = m]
    /\ status' = <<>>
    /\ reply' = NoReply
    /\ UNCHANGED <<monitors, healthCache>>

ManagerStopRelease ==
    /\ ctl.op = "Stop" /\ ctl.m # 0
    /\ ~StreamReadLocked(ctl.m) /\ ~StreamWriteLocked(ctl.m)
    /\ mon' = [mon EXCEPT ![ctl.m] = Released(@)]
    /\ ctl' = [ctl EXCEPT !.m = 0, !.todo = @ \ {ctl.m}]
    /\ status' = <<>>
    /\ reply' = NoReply
    /\ UNCHANGED <<monitors, healthCache>>

ManagerStopEnd ==
    /\ ctl.op = "Stop" /\ ctl.m = 0 /\ ctl.todo = {}
    /\ ctl' = NoCall
    /\ reply' = Reply("Stop", 0, "")
    /\ status' = <<>>
    /\ UNCHANGED <<monitors, mon, healthCache>>

\* ---------------------------------------------------------------- Enable/DisableMotionDetection
EnableMotionDetection(n) ==
    /\ ManagerMuFree
    /\ IF ~Exists(n)
       THEN /\ reply' = Reply("EnableMotionDetection", n, "NotFound")
            /\ UNCHANGED mon
       ELSE IF ~mon[monitors[n]].running
       THEN /\ reply' = Reply("EnableMotionDetection", n, "NotRunning")
            /\ UNCHANGED mon
       ELSE /\ mon' = [mon EXCEPT ![monitors[n]].motion = TRUE]
            /\ reply' = Reply("EnableMotionDetection", n, "ok")
    /\ status' = <<>>
    /\ UNCHANGED <<monitors, ctl, healthCache>>

\* with monitor.recorder.IsRecording() and monitor.recorder.Stop()
DisableMotionDetection(n) ==
    /\ ManagerMuFree
    /\ IF ~Exists(n)
       THEN /\ reply' = Reply("DisableMotionDetection", n, "NotFound")
            /\ UNCHANGED mon
       ELSE IF ~mon[monitors[n]].running
       THEN /\ reply' = Reply("DisableMotionDetection", n, "NotRunning")
            /\ UNCHANGED mon
       ELSE /\ mon' = [mon EXCEPT ![monitors[n]].motion = FALSE,
                                  ![monitors[n]].recording = FALSE]
            /\ reply' = Reply("DisableMotionDetection", n, "ok")
    /\ status' = <<>>
    /\ UNCHANGED <<monitors, ctl, healthCache>>

\* ---------------------------------------------------------------- monitorLoop
\* The locks a control call holds while it waits between two of its steps:
\* Manager.mu, taken for writing by StartCamera, StopCamera and Stop.
HeldLocks == IF ctl.op = "none" THEN {} ELSE {<<"registry", 0>>}

\* The locks the loop of monitor m takes: monitor.mu around the subscribers and
\* the motion flag, the mutex of its recorder inside each recorder call, and
\* Stream.mu inside ReadFrame and Reconnect, all of its own monitor.
LoopLocksWithRegistry(m) == {<<"monitor", m>>, <<"recorder", m>>, <<"stream", m>>,
                             <<"registry", 0>>}
LoopLocks(m) == {<<"monitor", m>>, <<"recorder", m>>, <<"stream", m>>}

\* select: case <-monitor.stopChan
LoopStop(m) ==
    /\ mon[m].loop = "select"
    /\ LoopLocks(m) \cap HeldLocks = {}
    /\ mon[m].stopClosed
    /\ mon' = [mon EXCEPT ![m].loop = "done"]
    /\ status' = <<>>
    /\ reply' = NoReply
    /\ UNCHANGED <<monitors, ctl, healthCache>>

\* select: case <-ticker.C, and the call of ReadFrame, which returns an error at
\* once for a stream that is not open (Reconnect then starts with Close)
LoopTick(m) ==
    /\ mon[m].loop = "select"
    /\ LoopLocks(m) \cap HeldLocks = {}
    /\ mon' = [mon EXCEPT ![m].loop = IF mon[m].streamOpen THEN "reading"
                                      ELSE "reconnecting"]
    /\ status' = <<>>
    /\ reply' = NoReply
    /\ UNCHANGED <<monitors, ctl, healthCache>>

\* capture.Read returns; on an error Reconnect starts with Close and then sleeps
LoopRead(m, ok) ==
    /\ mon[m].loop = "reading"
    /\ LoopLocks(m) \cap HeldLocks = {}
    /\ mon' = IF ok THEN [mon EXCEPT ![m].loop = "body"]
              ELSE [mon EXCEPT ![m].loop = "reconnecting", ![m].streamOpen = FALSE]
    /\ status' = <<>>
    /\ reply' = NoReply
    /\ UNCHANGED <<monitors, ctl, healthCache>>

\* Reconnect: the sleep is over, Open takes Stream.mu and calls OpenVideoCapture
LoopReopen(m) ==
    /\ mon[m].loop = "reconnecting"
    /\ LoopLocks(m) \cap HeldLocks = {}
    /\ mon' = [mon EXCEPT ![m].loop = "opening"]
    /\ status' = <<>>
    /\ reply' = NoReply
    /\ UNCHANGED <<monitors, ctl, healthCache>>

\* Open returns: on an error the loop sleeps (time.Sleep(5 * time.Second))
LoopOpened(m, ok) ==
    /\ mon[m].loop = "opening"
    /\ LoopLocks(m) \cap HeldLocks = {}
    /\ mon' = IF ok THEN [mon EXCEPT ![m].loop = "select", ![m].streamOpen = TRUE]
              ELSE [mon EXCEPT ![m].loop = "backoff"]
    /\ status' = <<>>
    /\ reply' = NoReply
    /\ UNCHANGED <<monitors, ctl, healthCache>>

\* the sleep after a failed Reconnect is over: continue
LoopBackoff(m) ==
    /\ mon[m].loop = "backoff"
    /\ LoopLocks(m) \cap HeldLocks = {}
    /\ mon' = [mon EXCEPT ![m].loop = "select"]
    /\ status' = <<>>
    /\ reply' = NoReply
    /\ UNCHANGED <<monitors, ctl, healthCache>>

\* the tick's body after a good read: AddFrame, the fan-out, Detect with
\* StartRecording and OnMotion when motion detection is enabled, Update
\* IsRecording after the body: a recording starts when the flag is set, motion is
\* detected and StartRecording succeeds; Update ends one whose post-roll has run
\* out, which it has not right after an OnMotion
BodyRecording(r, motionDetected, started, expired) ==
    LET motion == r.motion /\ motionDetected
    IN (r.recording \/ (motion /\ started)) /\ ~(expired /\ ~motion)

LoopBody(m, motionDetected, started, expired) ==
    /\ mon[m].loop = "body"
    /\ LoopLocks(m) \cap HeldLocks = {}
    /\ mon' = [mon EXCEPT ![m].loop = "select",
                          ![m].recording = BodyRecording(mon[m], motionDetected, started, expired)]
    /\ status' = <<>>
    /\ reply' = NoReply
    /\ UNCHANGED <<monitors, ctl, healthCache>>

\* one whole tick with a good read, from the select back to it
LoopOnce(m, motionDetected, started, expired) ==
    /\ mon[m].loop = "select"
    /\ LoopLocks(m) \cap HeldLocks = {}
    /\ mon[m].streamOpen
    /\ mon' = [mon EXCEPT ![m].recording = BodyRecording(mon[m], motionDetected, started, expired)]
    /\ reply' = NoReply
    /\ status' = <<>>
    /\ UNCHANGED <<monitors, ctl, healthCache>>

\* the loop's dealings with its stream
LoopSource(m) ==
    \/ LoopTick(m)
    \/ \E ok \in BOOLEAN : LoopRead(m, ok)
    \/ LoopReopen(m)
    \/ \E ok \in BOOLEAN : LoopOpened(m, ok)
    \/ LoopBackoff(m)

\* ---------------------------------------------------------------- GetStatus
\* one camStatus per camCfg of cfg.Cameras
CamStatusOfMonitor(n) ==
    IF Exists(n)
    THEN [name |-> n, running |-> mon[monitors[n]].running,
          recording |-> mon[monitors[n]].recording,
          motion_detection |-> mon[monitors[n]].motion,
          health |-> healthCache[n]]
    ELSE [name |-> n, running |-> FALSE, recording |-> FALSE,
          motion_detection |-> FALSE, health |-> healthCache[n]]

\* the cameras the loop of GetStatus ranges over
StatusCamerasRunningOnly == SelectSeq([i \in 1..NumCameras |-> i], Exists)
StatusCameras == [i \in 1..NumCameras |-> i]

\* m.mu.RLock(), and for every monitor stream.IsOpen(), which takes Stream.mu shared
GetStatusReady ==
    /\ ManagerMuFree
    /\ \A n \in Configured : Exists(n) => ~StreamWriteLocked(monitors[n])

GetStatus ==
    /\ GetStatusReady
    /\ status' = [i \in 1..Len(StatusCameras) |-> CamStatusOfMonitor(StatusCameras[i])]
    /\ reply' = Reply("GetStatus", 0, "")
    /\ UNCHANGED <<monitors, mon, ctl, healthCache>>

\* ---------------------------------------------------------------- performHealthChecks
\* one pass of its loop: m.healthCache[camCfg.Name] = result
HealthCheck(n, result) ==
    /\ n \in Configured
    /\ healthCache' = [healthCache EXCEPT ![n] = result]
    /\ status' = <<>>
    /\ reply' = NoReply
    /\ UNCHANGED <<monitors, mon, ctl>>

\* ---------------------------------------------------------------- Close, step by step
\* VideoRecorder.Close: r.Stop() under the mutex, then r.preBuffer.Do(...) with
\* no lock held, one slot at a time from the slot r.preBuffer pointed at when
\* the loop began.

\* r.Stop()
CloseStop ==
    /\ cam.drain = 0 - 1
    /\ Stop
    /\ cam' = [cam EXCEPT !.drain = 0, !.from = cur]
    /\ UNCHANGED besidesMonitor

\* the slot the Do loop visits next
DrainSlot == ((cam.from + cam.drain - 1) % Capacity) + 1

\* one call of the function given to Do: mat.Close() on a slot's Mat that is
\* not nil and not empty; after the last slot Close returns
CloseDrain ==
    /\ cam.drain >= 0
    /\ ~closed
    /\ IF cam.drain < Capacity
       THEN /\ closeCount' = IF IsFrame(ring[DrainSlot])
                             THEN CloseMat(closeCount, ring[DrainSlot])
                             ELSE closeCount
            /\ cam' = [cam EXCEPT !.drain = @ + 1]
            /\ UNCHANGED <<closed, ret>>
       ELSE /\ closed' = TRUE
            /\ ret' = Ret("Close", "")
            /\ UNCHANGED <<closeCount, cam>>
    /\ UNCHANGED <<config, ring, cur, writer, sinks, isRecording, framesSinceMotion,
                   currentFile, handoffs, added, clock, panicked, observed, conc>>
    /\ UNCHANGED besidesMonitor

InitClose ==
    /\ NewRecorder(2 * FpsScale, 1, 1)
    /\ NoManager
    /\ NoCamera
    /\ NoDetector
    /\ NoFanOut
    /\ NoServer

NextClose ==
    \/ NextConc
    \/ CloseStop
    \/ CloseDrain

SpecClose == InitClose /\ [][NextClose]_vars

\* ---------------------------------------------------------------- one monitor and its recorder
\* One running camera: the tick of monitorLoop call by call on its recorder,
\* and the control calls on its motion flag, which take monitor.mu only for
\* the flag and the recorder's own mutex inside each recorder call.

\* if err != nil { Reconnect; continue } after ReadFrame
AfterReadErrorIgnored(ok) == "addFrame"
AfterRead(ok) == IF ok THEN "addFrame" ELSE "reconnect"

\* case <-ticker.C: frame, err := monitor.stream.ReadFrame(); a stream that is
\* not open gives an error.  Either way ReadFrame returns a Mat of its own
\* (a clone of the frame, or gocv.NewMat() beside the error).
MonitorRead(ok) ==
    /\ cam.loop = "select"
    /\ ok => cam.open
    /\ cam' = [cam EXCEPT !.loop = AfterRead(ok),
                          !.read = IF ok THEN "ok" ELSE "failed",
                          !.calls = <<>>,
                          !.mat = 0]
    /\ UNCHANGED <<recorder, besidesMonitor>>

\* monitor.stream.Reconnect(): Close, Sleep, Open; time.Sleep when it failed;
\* continue
MonitorReconnect(ok) ==
    /\ cam.loop = "reconnect"
    /\ cam' = [cam EXCEPT !.loop = "select", !.open = ok]
    /\ UNCHANGED <<recorder, besidesMonitor>>

\* case <-monitor.stopChan: return
MonitorExit ==
    /\ cam.loop = "select"
    /\ cam.stop # "none"
    /\ cam' = [cam EXCEPT !.loop = "done"]
    /\ UNCHANGED <<recorder, besidesMonitor>>

\* monitor.recorder.AddFrame(frame)
MonitorAddFrame ==
    /\ cam.loop = "addFrame"
    /\ AddFrame
    /\ cam' = [cam EXCEPT !.loop = "fanOut", !.calls = Append(@, "AddFrame")]
    /\ UNCHANGED besidesMonitor

\* the broadcast to live viewers; this monitor has no subscriber, so nothing is
\* encoded or sent
MonitorFanOut ==
    /\ cam.loop = "fanOut"
    /\ cam' = [cam EXCEPT !.loop = "flag", !.calls = Append(@, "FanOut")]
    /\ UNCHANGED <<recorder, besidesMonitor>>

\* motionEnabled := monitor.MotionDetectEnabled (under monitor.mu.RLock)
MonitorReadFlag ==
    /\ cam.loop = "flag"
    /\ Alive
    /\ cam' = [cam EXCEPT !.loop = IF cam.enabled THEN "detect" ELSE "update"]
    /\ UNCHANGED <<recorder, besidesMonitor>>

\* if motionDetected {...}, then monitor.recorder.Update() in either case
AfterDetectUpdateOnMotionOnly(motionDetected) ==
    IF motionDetected THEN "isRecording" ELSE "close"
AfterDetect(motionDetected) == IF motionDetected THEN "isRecording" ELSE "update"

\* detection, motionDetected := monitor.detector.Detect(frame); the detection's
\* clone of the frame is closed inside the if
MonitorDetect(motionDetected) ==
    /\ cam.loop = "detect"
    /\ cam' = [cam EXCEPT !.loop = AfterDetect(motionDetected),
                          !.calls = @ \o (IF motionDetected
                                          THEN <<"Detect", "Motion">>
                                          ELSE <<"Detect">>)]
    /\ UNCHANGED <<recorder, besidesMonitor>>

\* if !monitor.recorder.IsRecording()
MonitorIsRecording ==
    /\ cam.loop = "isRecording"
    /\ MuAvailable
    /\ cam' = [cam EXCEPT !.loop = IF IsRecording THEN "onMotion" ELSE "start"]
    /\ UNCHANGED <<recorder, besidesMonitor>>

\* monitor.recorder.StartRecording(); its error is logged only
MonitorStartRecording(now, dirOk, openRes) ==
    /\ cam.loop = "start"
    /\ StartRecording(now, dirOk, openRes)
    /\ cam' = [cam EXCEPT !.loop = "onMotion", !.calls = Append(@, "StartRecording")]
    /\ UNCHANGED besidesMonitor

\* monitor.recorder.OnMotion()
MonitorOnMotion ==
    /\ cam.loop = "onMotion"
    /\ OnMotion
    /\ cam' = [cam EXCEPT !.loop = "update", !.calls = Append(@, "OnMotion")]
    /\ UNCHANGED besidesMonitor

\* monitor.recorder.Update()
MonitorUpdate ==
    /\ cam.loop = "update"
    /\ Update
    /\ cam' = [cam EXCEPT !.loop = "close", !.calls = Append(@, "Update")]
    /\ UNCHANGED besidesMonitor

\* if !frame.Empty() { frame.Close() }, and the next select
MonitorCloseFrame ==
    /\ cam.loop = "close"
    /\ cam' = [cam EXCEPT !.loop = "select", !.mat = @ + 1]
    /\ UNCHANGED <<recorder, besidesMonitor>>

\* EnableMotionDetection on the running camera
MonitorEnable ==
    /\ cam.dis = "none"
    /\ ~cam.enabled
    /\ cam' = [cam EXCEPT !.enabled = TRUE]
    /\ UNCHANGED <<recorder, besidesMonitor>>

\* DisableMotionDetection on the running camera: monitor.MotionDetectEnabled =
\* false under monitor.mu
DisableSetFlag ==
    /\ cam.dis = "none"
    /\ cam.stop = "none"
    /\ Alive
    /\ cam' = [cam EXCEPT !.enabled = FALSE, !.dis = "isRecording",
                          !.wasRecording = isRecording]
    /\ UNCHANGED <<recorder, besidesMonitor>>

\* if monitor.recorder.IsRecording()
DisableIsRecording ==
    /\ cam.dis = "isRecording"
    /\ MuAvailable
    /\ cam' = [cam EXCEPT !.dis = IF IsRecording THEN "stop" ELSE "return"]
    /\ UNCHANGED <<recorder, besidesMonitor>>

\* monitor.recorder.Stop()
DisableStop ==
    /\ cam.dis = "stop"
    /\ Stop
    /\ cam' = [cam EXCEPT !.dis = "return"]
    /\ UNCHANGED besidesMonitor

\* log.Info()...; return nil
DisableReturn ==
    /\ cam.dis = "return"
    /\ cam' = [cam EXCEPT !.dis = "none", !.wasRecording = FALSE]
    /\ UNCHANGED <<recorder, besidesMonitor>>

\* stopMonitor (from StopCamera or Stop, which hold Manager.mu for writing):
\* close(monitor.stopChan); monitor.running = false
StopSignal ==
    /\ cam.stop = "none"
    /\ cam.dis = "none"
    /\ cam' = [cam EXCEPT !.stop = "signalled"]
    /\ UNCHANGED <<recorder, besidesMonitor>>

\* monitor.stream.Close()
StopStream ==
    /\ cam.stop = "signalled"
    /\ cam' = [cam EXCEPT !.stop = "stream", !.open = FALSE]
    /\ UNCHANGED <<recorder, besidesMonitor>>

\* monitor.detector.Close()
StopDetector ==
    /\ cam.stop = "stream"
    /\ cam' = [cam EXCEPT !.stop = "detector"]
    /\ UNCHANGED <<recorder, besidesMonitor>>

\* monitor.recorder.Close(): its r.Stop(); the Do loop follows in CloseDrain
StopRecorder ==
    /\ cam.stop = "detector"
    /\ CloseStop

InitMonitor ==
    /\ NewRecorder(2 * FpsScale, 1, 1)
    /\ NewManager
    /\ cam = NewCameraMonitor
    /\ NoDetector
    /\ NoFanOut
    /\ NoServer

NextMonitor ==
    \/ \E ok \in BOOLEAN : MonitorRead(ok)
    \/ \E ok \in BOOLEAN : MonitorReconnect(ok)
    \/ MonitorExit
    \/ MonitorAddFrame
    \/ MonitorFanOut
    \/ MonitorReadFlag
    \/ \E motionDetected \in BOOLEAN : MonitorDetect(motionDetected)
    \/ MonitorIsRecording
    \/ \E now \in Times, dirOk \in BOOLEAN, openRes \in OpenResults :
          MonitorStartRecording(now, dirOk, openRes)
    \/ MonitorOnMotion
    \/ MonitorUpdate
    \/ MonitorCloseFrame
    \/ MonitorEnable
    \/ DisableSetFlag
    \/ DisableIsRecording
    \/ DisableStop
    \/ DisableReturn
    \/ StopSignal
    \/ StopStream
    \/ StopDetector
    \/ StopRecorder
    \/ CloseDrain

SpecMonitor == InitMonitor /\ [][NextMonitor]_vars

\* ---------------------------------------------------------------- a camera that keeps running
\* The loop alone, with no control call: tick after tick, the reads failing or
\* not, and the scene coming to rest at some moment.

\* the last motion in front of the camera is over
MotionCeases ==
    /\ ~cam.quiet
    /\ cam' = [cam EXCEPT !.quiet = TRUE]
    /\ UNCHANGED <<recorder, besidesMonitor>>

\* the next step of the monitorLoop goroutine
MonitorLoopStep ==
    \/ \E ok \in BOOLEAN : MonitorRead(ok)
    \/ \E ok \in BOOLEAN : MonitorReconnect(ok)
    \/ MonitorAddFrame
    \/ MonitorFanOut
    \/ MonitorReadFlag
    \/ \E motionDetected \in BOOLEAN :
          (cam.quiet => ~motionDetected) /\ MonitorDetect(motionDetected)
    \/ MonitorIsRecording
    \/ \E now \in Times, dirOk \in BOOLEAN, openRes \in OpenResults :
          MonitorStartRecording(now, dirOk, openRes)
    \/ MonitorOnMotion
    \/ MonitorUpdate
    \/ MonitorCloseFrame

NextRunning ==
    \/ MonitorLoopStep
    \/ MotionCeases

\* The goroutine is scheduled again and again, and the ticker fires every 33 ms:
\* the loop's next step is taken whenever there is one.
SpecRunning == InitMonitor /\ [][NextRunning]_vars /\ WF_vars(MonitorLoopStep)

\* ---------------------------------------------------------------- a sink whose writes fail
\* r.writer.Write(frame) returns an error that AddFrame and StartRecording drop:
\* the frame is missing from the file and the call goes on as after a write
\* that worked.

\* the sequence without its k-th element
Without(fs, k) == [i \in 1..(Len(fs) - 1) |-> IF i < k THEN fs[i] ELSE fs[i + 1]]

\* AddFrame while recording, the write of the frame failing
AddFrameWriteFails ==
    /\ Alive /\ MuAvailable
    /\ added < MaxFrames
    /\ Capacity > 0
    /\ ShouldWrite(added + 1)
    /\ LET frame == added + 1
           old == ring[cur]
       IN /\ closeCount' = IF IsFrame(old) THEN CloseMat(closeCount, old)
                           ELSE closeCount
          /\ ring' = [ring EXCEPT ![cur] = frame]
          /\ cur' = RingNext(cur, Capacity)
          /\ added' = frame
    /\ ret' = Ret("AddFrame", "")
    /\ UNCHANGED <<config, writer, sinks, isRecording, framesSinceMotion, currentFile,
                   handoffs, clock, panicked, closed, observed, conc>>

\* StartRecording with the sink opened, the write of the k-th pre-buffered frame
\* failing in the second Do loop
StartRecordingWriteFails(now, k) ==
    /\ Alive /\ MuAvailable
    /\ now >= clock
    /\ Len(sinks) < MaxSinks
    /\ ~AlreadyRecording
    /\ ~NoValidFrames(ring, cur)
    /\ k \in 1..Len(PreBufferFrames(ring, cur))
    /\ clock' = now
    /\ currentFile' = FileName(now)
    /\ sinks' = Append(sinks, [file |-> FileName(now),
                               frames |-> Without(PreBufferFrames(ring, cur), k),
                               open |-> TRUE,
                               startAt |-> added,
                               endAt |-> 0])
    /\ writer' = Len(sinks) + 1
    /\ isRecording' = TRUE
    /\ framesSinceMotion' = 0
    /\ updatesSince' = 0
    /\ motionReset' = FALSE
    /\ ret' = Ret("StartRecording", "ok")
    /\ ring' = Drained(ring)
    /\ UNCHANGED <<config, cur, handoffs, closeCount, added, panicked,
                   closed, conc>>

InitSink ==
    /\ NewRecorder(2 * FpsScale, 1, 1)
    /\ NoManager
    /\ NoCamera
    /\ NoDetector
    /\ NoFanOut
    /\ NoServer

NextSink ==
    \/ AddFrame /\ UNCHANGED besidesRecorder
    \/ AddFrameWriteFails /\ UNCHANGED besidesRecorder
    \/ \E now \in Times, dirOk \in BOOLEAN, openRes \in OpenResults :
          StartRecording(now, dirOk, openRes) /\ UNCHANGED besidesRecorder
    \/ \E now \in Times, k \in 1..MaxFrames :
          StartRecordingWriteFails(now, k) /\ UNCHANGED besidesRecorder
    \/ OnMotion /\ UNCHANGED besidesRecorder
    \/ Update /\ UNCHANGED besidesRecorder
    \/ Stop /\ UNCHANGED besidesRecorder

SpecSink == InitSink /\ [][NextSink]_vars

\* ---------------------------------------------------------------- Detector.Detect
\* now.Sub(d.lastDetection) < d.detectionInterval
InsideInterval(d) == d.now - d.lastDetection < d.interval

\* Detect(frame) at time det.now; motion: totalArea > int(d.Threshold) for this
\* frame.  An evaluation is the d.mog2.Apply(frame, &mask) call, which updates
\* the background model.
Detect(motion) ==
    /\ det' = IF InsideInterval(det)
              THEN [det EXCEPT !.out = "skipped"]
              ELSE IF motion
              THEN [det EXCEPT !.lastEvaluation = det.now,
                               !.lastDetection = det.now,
                               !.out = "motion"]
              ELSE [det EXCEPT !.lastEvaluation = det.now,
                               !.out = "noMotion"]
    /\ UNCHANGED <<recorder, manager, cam, fan, srv>>

\* time passes between two calls
TimePasses ==
    /\ det.now < MaxTime
    /\ det' = [det EXCEPT !.now = @ + 1, !.out = "none"]
    /\ UNCHANGED <<recorder, manager, cam, fan, srv>>

InitDetector ==
    /\ NewRecorder(2 * FpsScale, 1, 1)
    /\ NoManager
    /\ NoCamera
    /\ NoFanOut
    /\ NoServer
    /\ \E intervalMs \in 0..MaxInterval : det = NewDetector(intervalMs)

NextDetector ==
    \/ \E motion \in BOOLEAN : Detect(motion)
    \/ TimePasses

SpecDetector == InitDetector /\ [][NextDetector]_vars

\* ---------------------------------------------------------------- live fan-out
\* The frame of tick k is k.  Channels are numbered in the order Subscribe makes
\* them.

\* select { case sub <- frameBytes: default: } on a channel with queue q
OfferWaiting(q, frame) == Append(q, frame)
Offer(q, frame) == IF Len(q) < QueueCapacity THEN Append(q, frame) ELSE q

Subscribed(c) == \E i \in 1..Len(fan.subscribers) : fan.subscribers[i] = c

\* Subscribe on the running camera: ch := make(chan []byte, 5), appended to
\* monitor.subscribers under monitor.mu; an error for a camera with no entry in
\* m.monitors
Subscribe ==
    /\ fan.registered
    /\ \E c \in Chans :
          /\ fan.chan[c].state = "none"
          /\ \A b \in Chans : b < c => fan.chan[b].state # "none"
          /\ fan' = [fan EXCEPT !.chan[c].state = "open",
                                !.subscribers = Append(@, c)]
    /\ UNCHANGED <<recorder, manager, cam, det, srv>>

\* Unsubscribe(name, ch): the monitor is looked up in m.monitors by name, and
\* the call returns at once when there is none; else the channel is taken out
\* of monitor.subscribers and closed, if it is in the slice.  A channel whose
\* Unsubscribe returned without closing it is "left".
Unsubscribe(c) ==
    /\ fan.chan[c].state # "none"
    /\ fan' = IF ~fan.registered
              THEN [fan EXCEPT !.chan[c].state = IF @ = "open" THEN "left" ELSE @]
              ELSE IF Subscribed(c)
              THEN [fan EXCEPT !.chan[c].state = "closed",
                               !.subscribers = SelectSeq(@, LAMBDA b : b # c)]
              ELSE fan
    /\ UNCHANGED <<recorder, manager, cam, det, srv>>

\* the consumer of channel c takes the frame at the head of its queue
Receive(c) ==
    /\ fan.chan[c].queue # <<>>
    /\ fan' = [fan EXCEPT !.chan[c].queue = Tail(@)]
    /\ UNCHANGED <<recorder, manager, cam, det, srv>>

\* case <-ticker.C with a frame read: hasSubscribers := len(monitor.subscribers) > 0;
\* the frame is encoded when there are subscribers, encoded telling whether
\* IMEncode gave bytes
FanOutEncode(encoded) ==
    /\ fan.loop = "select"
    /\ fan.tick < MaxTicks
    /\ fan' = [fan EXCEPT !.tick = @ + 1,
                          !.loop = IF Len(fan.subscribers) > 0 /\ encoded
                                   THEN "send" ELSE "select"]
    /\ UNCHANGED <<recorder, manager, cam, det, srv>>

\* for _, sub := range monitor.subscribers { select { case sub <- frameBytes: default: } }
\* under monitor.mu.RLock
FanOutSend ==
    /\ fan.loop = "send"
    /\ fan' = [fan EXCEPT !.loop = "select",
                          !.chan = [c \in Chans |->
                                       IF Subscribed(c)
                                       THEN [@[c] EXCEPT !.queue = Offer(@, fan.tick)]
                                       ELSE @[c]]]
    /\ UNCHANGED <<recorder, manager, cam, det, srv>>

\* StopCamera on the camera: stopMonitor (close(stopChan), the three Close
\* calls, which leave monitor.subscribers as it is) and delete(m.monitors, name),
\* all under Manager.mu
FanOutStopCamera ==
    /\ fan.registered
    /\ fan' = [fan EXCEPT !.registered = FALSE]
    /\ UNCHANGED <<recorder, manager, cam, det, srv>>

\* select: case <-monitor.stopChan: return
FanOutExit ==
    /\ fan.loop = "select"
    /\ ~fan.registered
    /\ fan' = [fan EXCEPT !.loop = "done"]
    /\ UNCHANGED <<recorder, manager, cam, det, srv>>

InitFanOut ==
    /\ NewRecorder(2 * FpsScale, 1, 1)
    /\ NoManager
    /\ NoCamera
    /\ NoDetector
    /\ fan = NewFanOut
    /\ NoServer

NextFanOut ==
    \/ Subscribe
    \/ \E c \in Chans : Unsubscribe(c)
    \/ \E c \in Chans : Receive(c)
    \/ \E encoded \in BOOLEAN : FanOutEncode(encoded)
    \/ FanOutSend

SpecFanOut == InitFanOut /\ [][NextFanOut]_vars

\* the same with a StopCamera on the camera at some moment
NextFanOutStop ==
    \/ NextFanOut
    \/ FanOutStopCamera
    \/ FanOutExit

SpecFanOutStop == InitFanOut /\ [][NextFanOutStop]_vars

\* ---------------------------------------------------------------- the manager and its loops
\* The recorder variables stand still: the monitors' recorders are in mon.
InitFleet ==
    /\ NewRecorder(2 * FpsScale, 1, 1)
    /\ NewManager
    /\ NoCamera
    /\ NoDetector
    /\ NoFanOut
    /\ NoServer

\* The registry, the control calls that change it and the loops with their
\* streams; no motion is seen.
NextFleet ==
    \/ \E n \in Names : StartCameraBegin(n) /\ UNCHANGED besidesManager
    \/ \E ok \in BOOLEAN : StartCameraOpened(ok) /\ UNCHANGED besidesManager
    \/ \E n \in Names : StopCameraBegin(n) /\ UNCHANGED besidesManager
    \/ StopCameraFinish /\ UNCHANGED besidesManager
    \/ ManagerStopBegin /\ UNCHANGED besidesManager
    \/ \E m \in Mons : ManagerStopSignal(m) /\ UNCHANGED besidesManager
    \/ ManagerStopRelease /\ UNCHANGED besidesManager
    \/ ManagerStopEnd /\ UNCHANGED besidesManager
    \/ \E m \in Mons : LoopStop(m) /\ UNCHANGED besidesManager
    \/ \E m \in Mons : LoopSource(m) /\ UNCHANGED besidesManager
    \/ \E m \in Mons : LoopBody(m, FALSE, FALSE, FALSE) /\ UNCHANGED besidesManager

SpecFleet == InitFleet /\ [][NextFleet]_vars

FleetLoopRuns(m) == (LoopSource(m) \/ LoopBody(m, FALSE, FALSE, FALSE)) /\ UNCHANGED besidesManager
FleetLoopStops(m) == LoopStop(m) /\ UNCHANGED besidesManager

\* StartCamera and StopCamera with the loops they start and stop, the last
\* CameraMonitor the model allows left uncreated.
NextStop ==
    \/ \E n \in Names : NewMon \in 1..(MaxMonitors - 1) /\ StartCameraBegin(n)
                          /\ UNCHANGED besidesManager
    \/ \E ok \in BOOLEAN : StartCameraOpened(ok) /\ UNCHANGED besidesManager
    \/ \E n \in Names : StopCameraBegin(n) /\ UNCHANGED besidesManager
    \/ StopCameraFinish /\ UNCHANGED besidesManager
    \/ \E m \in Mons : FleetLoopStops(m)
    \/ \E m \in Mons : FleetLoopRuns(m)

\* Each loop goroutine keeps running, and a select whose stop channel is closed
\* again and again takes that case in the end (the runtime picks among the ready
\* cases at random).
SpecStopFair ==
    /\ InitFleet /\ [][NextStop]_vars
    /\ \A m \in Mons : WF_vars(FleetLoopRuns(m)) /\ SF_vars(FleetLoopStops(m))

\* The registry, the motion-detection flag, the recording state and the health
\* cache as GetStatus reports them; the streams do not fail and a tick is one step.
NextStatus ==
    \/ \E n \in Names : StartCameraBegin(n) /\ UNCHANGED besidesManager
    \/ StartCameraOpened(TRUE) /\ UNCHANGED besidesManager
    \/ \E n \in Names : StopCameraBegin(n) /\ UNCHANGED besidesManager
    \/ StopCameraFinish /\ UNCHANGED besidesManager
    \/ \E n \in Names : EnableMotionDetection(n) /\ UNCHANGED besidesManager
    \/ \E n \in Names : DisableMotionDetection(n) /\ UNCHANGED besidesManager
    \/ ManagerStopBegin /\ UNCHANGED besidesManager
    \/ \E m \in Mons : ManagerStopSignal(m) /\ UNCHANGED besidesManager
    \/ ManagerStopRelease /\ UNCHANGED besidesManager
    \/ ManagerStopEnd /\ UNCHANGED besidesManager
    \/ \E m \in Mons : LoopStop(m) /\ UNCHANGED besidesManager
    \/ \E m \in Mons, motionDetected, started, expired \in BOOLEAN :
          LoopOnce(m, motionDetected, started, expired) /\ UNCHANGED besidesManager
    \/ GetStatus /\ UNCHANGED besidesManager
    \/ \E n \in Configured, result \in HealthResults :
          HealthCheck(n, result) /\ UNCHANGED besidesManager

SpecStatus == InitFleet /\ [][NextStatus]_vars

\* ================================================================ the API server
\* Server (package server): the play, download and delete handlers of
\* /api/recordings, which take the file's path from the query.

\* filepath.Abs of an absolute path: filepath.Clean, which resolves ".."
\* segments (".." at the root stays at the root)
RECURSIVE CleanOnto(_, _)
CleanOnto(done, rest) ==
    IF rest = <<>> THEN done
    ELSE IF Head(rest) = DotDot
    THEN CleanOnto(IF done = <<>> THEN <<>> ELSE SubSeq(done, 1, Len(done) - 1),
                   Tail(rest))
    ELSE CleanOnto(Append(done, Head(rest)), Tail(rest))

Abs(path) == CleanOnto(<<>>, path)

\* the string of a cleaned path, character by character
RECURSIVE Joined(_)
Joined(path) ==
    IF path = <<>> THEN <<>> ELSE <<"/">> \o Head(path) \o Joined(Tail(path))

PathString(path) == IF path = <<>> THEN <<"/">> ELSE Joined(path)

\* strings.HasPrefix(s, prefix)
HasPrefix(s, prefix) == Len(prefix) <= Len(s) /\ SubSeq(s, 1, Len(prefix)) = prefix

\* isValidRecordingPath(filePath)
isValidRecordingPath(filePath) ==
    \E i \in 1..Len(RecordingPaths) :
       HasPrefix(PathString(Abs(filePath)), PathString(Abs(RecordingPaths[i])))

\* os.Stat(filePath) does not report IsNotExist
StatFinds(filePath) == Abs(filePath) \in srv.disk

\* os.Remove(filePath) fails on a directory that is not empty
RemoveFails(filePath) ==
    \E q \in srv.disk : Len(q) = Len(Abs(filePath)) + 1
                        /\ SubSeq(q, 1, Len(q) - 1) = Abs(filePath)

\* the status of the three handlers up to their os.Stat
StatusBeforeOpen(given, filePath) ==
    IF ~given THEN "400"
    ELSE IF ~isValidRecordingPath(filePath) THEN "403"
    ELSE IF ~StatFinds(filePath) THEN "404"
    ELSE "200"

\* handleRecordingPlay: http.ServeFile(w, r, filePath)
handleRecordingPlay(given, filePath) ==
    /\ srv' = [srv EXCEPT !.handler = "play", !.given = given,
                          !.file = IF given THEN filePath ELSE <<>>,
                          !.code = StatusBeforeOpen(given, filePath),
                          !.read = IF StatusBeforeOpen(given, filePath) = "200"
                                   THEN {Abs(filePath)} ELSE {}]
    /\ UNCHANGED <<recorder, manager, cam, det, fan>>

\* handleRecordingDownload: os.Open(filePath), io.Copy(w, file)
handleRecordingDownload(given, filePath) ==
    /\ srv' = [srv EXCEPT !.handler = "download", !.given = given,
                          !.file = IF given THEN filePath ELSE <<>>,
                          !.code = StatusBeforeOpen(given, filePath),
                          !.read = IF StatusBeforeOpen(given, filePath) = "200"
                                   THEN {Abs(filePath)} ELSE {}]
    /\ UNCHANGED <<recorder, manager, cam, det, fan>>

\* handleRecordingDelete: os.Remove(filePath)
handleRecordingDelete(given, filePath) ==
    /\ srv' = [srv EXCEPT !.handler = "delete", !.given = given,
                          !.file = IF given THEN filePath ELSE <<>>,
                          !.code = IF StatusBeforeOpen(given, filePath) # "200"
                                   THEN StatusBeforeOpen(given, filePath)
                                   ELSE IF RemoveFails(filePath) THEN "500"
                                   ELSE "200",
                          !.disk = IF StatusBeforeOpen(given, filePath) = "200"
                                      /\ ~RemoveFails(filePath)
                                   THEN @ \ {Abs(filePath)} ELSE @,
                          !.read = {}]
    /\ UNCHANGED <<recorder, manager, cam, det, fan>>

InitServer ==
    /\ NewRecorder(2 * FpsScale, 1, 1)
    /\ NoManager
    /\ NoCamera
    /\ NoDetector
    /\ NoFanOut
    /\ srv = NewServer

\* a request without the file parameter, or with one of the paths
NextServer ==
    \/ \E given \in BOOLEAN, filePath \in Paths : handleRecordingPlay(given, filePath)
    \/ \E given \in BOOLEAN, filePath \in Paths : handleRecordingDownload(given, filePath)
    \/ \E given \in BOOLEAN, filePath \in Paths : handleRecordingDelete(given, filePath)

SpecServer == InitServer /\ [][NextServer]_vars

\* ================================================================ properties

Min(a, b) == IF a <= b THEN a ELSE b

\* the frames numbered lo..hi, in order
FramesFromTo(lo, hi) == [i \in 1..(hi - lo + 1) |-> lo + i - 1]

NoSlotOccupied == \A i \in 1..Capacity : ring[i] = 0

Held(k) == \E i \in 1..Capacity : ring[i] = k

\* C1: for capacity C >= 1, a StartRecording that opens a sink after n AddFrame
\* calls writes to it exactly the last min(n, C) added frames, oldest first, in
\* insertion order.
C1_StartWritesLastFrames ==
    [][Len(sinks') = Len(sinks) + 1 =>
          /\ Capacity >= 1
          /\ sinks'[Len(sinks')].frames =
                FramesFromTo(added - Min(added, Capacity) + 1, added)]_vars

\* a sink opened after more AddFrame calls than a ring of two or more slots holds
C1_Witness ==
    \E i \in DOMAIN sinks :
        /\ Capacity >= 2
        /\ sinks[i].startAt > Capacity
        /\ Len(sinks[i].frames) >= Capacity

\* C2 (as stated): StartRecording on an Idle recorder with capacity > 0 and no
\* occupied slot returns the NoPreBufferFrames error, opens no sink and leaves
\* the recorder Idle.
C2_EmptyStartNoPreBufferFrames ==
    [][(ret'.op = "StartRecording" /\ ~isRecording /\ Capacity > 0 /\ NoSlotOccupied) =>
          /\ ret'.val = "NoPreBufferFrames"
          /\ sinks' = sinks
          /\ writer' = 0
          /\ ~isRecording']_vars

\* C2 (amended): StartRecording on an Idle recorder with capacity > 0 and no
\* occupied slot returns an error, NoPreBufferFrames or, when the output directory
\* cannot be created, the directory error; it opens no sink and leaves the
\* recorder Idle.
C2_EmptyStartFails ==
    [][(ret'.op = "StartRecording" /\ ~isRecording /\ Capacity > 0 /\ NoSlotOccupied) =>
          /\ ret'.val \in {"NoPreBufferFrames", "MkdirFailed"}
          /\ sinks' = sinks
          /\ writer' = 0
          /\ ~isRecording']_vars

\* StartRecording has failed for want of frames on a recorder that has a ring
C2_Witness ==
    /\ ret = Ret("StartRecording", "NoPreBufferFrames")
    /\ Capacity > 0
    /\ NoSlotOccupied
    /\ ~isRecording

\* C3: with preBufferSeconds = 0 the recorder is usable: AddFrame completes
\* without fault and StartRecording does not fail for want of pre-buffer frames.
C3_ZeroPreBufferUsable ==
    pre = 0 =>
        /\ ~panicked
        /\ (ret.op = "StartRecording" => ret.val # "NoPreBufferFrames")

\* C4: StartRecording while Recording returns success and changes nothing: no
\* second sink, the same destination file, the same frames in the sink, the same
\* frames-since-motion counter.
C4_StartIdempotent ==
    [][(ret'.op = "StartRecording" /\ isRecording) =>
          /\ ret'.val = "ok"
          /\ sinks' = sinks
          /\ writer' = writer
          /\ currentFile' = currentFile
          /\ framesSinceMotion' = framesSinceMotion
          /\ isRecording']_vars

\* StartRecording has returned while a session with a counter above 0 was running
C4_Witness ==
    /\ ret = Ret("StartRecording", "ok")
    /\ isRecording
    /\ framesSinceMotion > 0

\* C5 (as stated): with N = fps x postBufferSeconds a whole number >= 1, an Update of a Recording
\* recorder returns false and keeps it Recording while fewer than N Updates have
\* been made since the start or the last OnMotion, and the N-th returns true and
\* moves it to Idle; an Update of an Idle recorder returns false.
C5_ExpiryAtFpsTimesPost ==
    [][(ret'.op = "Update" /\ fps * post >= FpsScale /\ (fps * post) % FpsScale = 0) =>
          IF isRecording
          THEN IF updatesSince' * FpsScale < fps * post
               THEN ret'.val = "false" /\ isRecording'
               ELSE /\ updatesSince' * FpsScale = fps * post
                    /\ ret'.val = "true"
                    /\ ~isRecording'
          ELSE ret'.val = "false" /\ ~isRecording']_vars

\* C5 (amended): the same with N = int(fps) x postBufferSeconds >= 1, fps
\* truncated to a whole number; the Idle transition hands off one file.
C5_ExpiryAtIntFpsTimesPost ==
    [][(ret'.op = "Update" /\ (fps \div FpsScale) * post >= 1) =>
          IF isRecording
          THEN IF updatesSince' < (fps \div FpsScale) * post
               THEN /\ ret'.val = "false"
                    /\ isRecording'
                    /\ handoffs' = handoffs
               ELSE /\ updatesSince' = (fps \div FpsScale) * post
                    /\ ret'.val = "true"
                    /\ ~isRecording'
                    /\ Len(handoffs') = Len(handoffs) + 1
          ELSE /\ ret'.val = "false"
               /\ ~isRecording'
               /\ handoffs' = handoffs]_vars

\* the N-th Update, N >= 2, has just ended a session
C5_Witness ==
    /\ ret = Ret("Update", "true")
    /\ ~isRecording
    /\ updatesSince = (fps \div FpsScale) * post
    /\ updatesSince >= 2

\* C6 (as stated): OnMotion sets the counter to 0, and an Update of a Recording
\* recorder made while fewer than fps x postBufferSeconds Updates have occurred
\* since the last OnMotion leaves it Recording.
C6_MotionKeepsRecording ==
    [][/\ ret'.op = "OnMotion" => framesSinceMotion' = 0
       /\ (ret'.op = "Update" /\ isRecording /\ updatesSince' * FpsScale < fps * post) =>
             (isRecording' /\ writer' = writer /\ sinks' = sinks /\ handoffs' = handoffs)]_vars

\* C6 (amended): the same with int(fps) x postBufferSeconds as the number of
\* Updates.
C6_MotionKeepsRecordingInt ==
    [][/\ ret'.op = "OnMotion" => framesSinceMotion' = 0
       /\ (ret'.op = "Update" /\ isRecording
             /\ updatesSince' < (fps \div FpsScale) * post) =>
             (isRecording' /\ writer' = writer /\ sinks' = sinks /\ handoffs' = handoffs)]_vars

\* still Recording after an Update, an OnMotion and then as many Updates as
\* the limit allows
C6_Witness ==
    /\ isRecording
    /\ motionReset
    /\ ret = Ret("Update", "false")
    /\ updatesSince >= 1
    /\ updatesSince = (fps \div FpsScale) * post - 1

\* C7: a session's sink holds exactly the drained pre-buffer frames followed by
\* every frame added while it was Recording, in arrival order, each once.
C7_SinkHoldsSessionFrames ==
    \A i \in DOMAIN sinks :
        sinks[i].frames =
            FramesFromTo(sinks[i].startAt - Min(sinks[i].startAt, Capacity) + 1,
                         IF sinks[i].open THEN added ELSE sinks[i].endAt)

\* a finished session with two pre-buffer frames and a frame added while Recording
C7_Witness ==
    \E i \in DOMAIN sinks :
        /\ ~sinks[i].open
        /\ Capacity >= 2
        /\ sinks[i].startAt >= 2
        /\ sinks[i].endAt > sinks[i].startAt
        /\ Len(sinks[i].frames) >= 3

\* C8: while Idle, AddFrame, OnMotion and Update leave the recorder Idle, open and
\* write no sink and hand off no file, and Update returns false; AddFrame stores
\* the frame in the ring slot at the cursor, Idle or Recording.
C8_IdleIgnoresFramesAndMotion ==
    [][/\ (~isRecording /\ ret'.op \in {"AddFrame", "OnMotion", "Update"}) =>
             /\ ~isRecording'
             /\ writer' = writer
             /\ sinks' = sinks
             /\ handoffs' = handoffs
             /\ (ret'.op = "Update" => ret'.val = "false")
       /\ (ret'.op = "AddFrame" /\ Capacity >= 1) =>
             /\ added' = added + 1
             /\ ring' = [ring EXCEPT ![cur] = added + 1]]_vars

\* an Update has returned false on an Idle recorder that holds frames and has a
\* destination file set
C8_Witness ==
    /\ ~isRecording
    /\ ret = Ret("Update", "false")
    /\ added >= 1
    /\ currentFile # NoFile

\* C9: Stop on a Recording recorder, like the Update that ends the post-roll,
\* leaves it Idle with no writer, the session's sink closed with its frames as
\* they were, and the file handed to the conversion; IsRecording is true after
\* a successful start and false after Stop.
C9_StopLikeExpiry ==
    [][/\ (isRecording /\ (ret'.op = "Stop" \/ ret' = Ret("Update", "true"))) =>
             /\ ~IsRecording'
             /\ writer' = 0
             /\ writer # 0
             /\ ~sinks'[writer].open
             /\ sinks'[writer].frames = sinks[writer].frames
             /\ Len(sinks') = Len(sinks)
             /\ handoffs' = Append(handoffs, currentFile)
             /\ currentFile = sinks[writer].file
       /\ ret' = Ret("StartRecording", "ok") => IsRecording'
       /\ ret'.op = "Stop" => ~IsRecording']_vars

\* Stop has ended a session
C9_Witness ==
    /\ ret.op = "Stop"
    /\ ~IsRecording
    /\ Len(sinks) >= 1
    /\ \A i \in DOMAIN sinks : ~sinks[i].open
    /\ Len(handoffs) = Len(sinks)

\* C10: concurrent AddFrame calls never release a clone twice, and whenever no
\* call is in progress the ring holds min(inserts, C) frames and every inserted
\* frame is either held and not released, or not held and released once.
C10_ConcurrentAddFrameSafe ==
    /\ \A k \in 1..MaxFrames : closeCount[k] <= 1
    /\ ((\A t \in Tasks : pc[t].at = "idle") /\ ~panicked) =>
          /\ Cardinality({i \in 1..Capacity : ring[i] # 0}) = Min(added, Capacity)
          /\ \A k \in 1..added :
                \/ Held(k) /\ closeCount[k] = 0
                \/ ~Held(k) /\ closeCount[k] = 1

\* a caller is inside AddFrame, about to overwrite a frame whose clone it has
\* released, while another caller waits for the mutex
C10_Witness ==
    \E t, u \in Tasks :
        /\ t # u
        /\ pc[t].at = "released"
        /\ pc[u].at = "waiting"
        /\ Capacity >= 1
        /\ ring[cur] # 0
        /\ closeCount[ring[cur]] = 1

\* ---------------------------------------------------------------- the manager's claims
\* a camera has a source operation under way: its StartCamera is inside
\* stream.Open, or its loop is reading, reconnecting or backing off
SourceBusy(n) ==
    \/ ctl.op = "StartCamera" /\ ctl.name = n
    \/ \E m \in Mons : /\ mon[m].name = n
                       /\ mon[m].loop \in {"reading", "reconnecting", "opening", "backoff"}

\* C11: StopCamera(name) returns NotFound when name is in no configuration and
\* NotRunning when name is a configured camera that is not running (never
\* started, or stopped before); either way the registry and the monitors are as
\* they were.
C11_StopCameraErrors ==
    [][(ctl = NoCall /\ reply'.op = "StopCamera"
          /\ (monitors[reply'.name] = 0 \/ ~mon[monitors[reply'.name]].running)) =>
          /\ reply'.name \notin Configured => reply'.val = "NotFound"
          /\ reply'.name \in Configured => reply'.val = "NotRunning"
          /\ monitors' = monitors
          /\ mon' = mon]_vars

\* C12: StartCamera fails with AlreadyRunning if a running monitor is registered
\* for the name, else with NotFound if the name is in no configuration, else
\* with the source's error if the stream does not open; a failing StartCamera
\* changes neither the registry nor the monitors, and starts no loop.
C12_StartCameraErrors ==
    [][/\ (ctl = NoCall /\ ctl'.op = "StartCamera") =>
             /\ monitors[ctl'.name] = 0 \/ ~mon[monitors[ctl'.name]].running
             /\ ctl'.name \in Configured
       /\ (ctl = NoCall /\ reply'.op = "StartCamera") =>
             IF monitors[reply'.name] # 0 /\ mon[monitors[reply'.name]].running
             THEN reply'.val = "AlreadyRunning"
             ELSE reply'.name \notin Configured /\ reply'.val = "NotFound"
       /\ (ctl.op = "StartCamera" /\ reply'.op = "StartCamera") =>
             /\ reply'.name = ctl.name
             /\ reply'.val \in {"ok", "SourceOpenFailed"}
       /\ (reply'.op = "StartCamera" /\ reply'.val # "ok") =>
             /\ monitors' = monitors
             /\ mon' = mon
       /\ (reply'.op = "StartCamera" /\ reply'.val = "ok") =>
             /\ monitors[reply'.name] # monitors'[reply'.name]
             /\ mon[monitors'[reply'.name]].loop = "none"
             /\ mon'[monitors'[reply'.name]].loop = "select"
             /\ mon'[monitors'[reply'.name]].running]_vars

\* StartCamera has just failed with AlreadyRunning while the other camera, stopped
\* by Manager.Stop, is still registered
C12_Witness ==
    /\ reply.op = "StartCamera"
    /\ reply.val = "AlreadyRunning"
    /\ \E n \in Configured : Exists(n) /\ ~mon[monitors[n]].running

\* C13: a StopCamera that succeeds has closed the monitor's stop channel and
\* removed it from the registry, and a loop whose stop channel is closed ends,
\* wherever it stood when the channel was closed.
C13_StopCameraEndsLoop ==
    /\ [][(reply'.op = "StopCamera" /\ reply'.val = "ok") =>
             /\ ctl.op = "StopCamera" /\ reply'.name = ctl.name
             /\ monitors[ctl.name] = ctl.m
             /\ monitors'[ctl.name] = 0
             /\ mon'[ctl.m].stopClosed]_vars
    /\ \A m \in Mons : mon[m].stopClosed ~> (mon[m].loop = "done")

\* StopCamera has just succeeded on a camera whose loop sleeps after a failed
\* reconnect
C13_Witness ==
    /\ reply.op = "StopCamera" /\ reply.val = "ok"
    /\ \E m \in Mons :
          /\ mon[m].name = reply.name /\ mon[m].stopClosed /\ mon[m].loop = "backoff"
          /\ monitors[mon[m].name] = 0

C16_FailuresIsolated ==
    \A n \in Configured :
        (SourceBusy(n) /\ (ctl.op = "none" \/ ctl.name = n)) =>
            /\ GetStatusReady
            /\ \A m \in Mons :
                  (mon[m].name # n /\ mon[m].loop \notin {"none", "done"}) =>
                      ENABLED (FleetLoopRuns(m) \/ FleetLoopStops(m))

\* C14: when DisableMotionDetection returns success for a running camera whose
\* recorder was Recording when the call was made, the recorder is Idle and its
\* sink is closed; on a camera whose recorder it finds not recording, the call
\* changes only the motion-detection flag.
C14_DisableStopsRecording ==
    [][/\ (cam.dis = "return" /\ cam'.dis = "none" /\ cam.wasRecording)
          => (~isRecording /\ writer = 0
              /\ \A i \in 1..Len(sinks) : ~sinks[i].open)
       /\ (cam.dis = "isRecording" /\ cam'.dis = "return")
          => UNCHANGED recorder]_vars

\* C17: a sink failure leaves the recorder Idle when the operation returns: a
\* StartRecording whose sink does not open, a StartRecording one of whose
\* pre-buffer writes fails (the new file lacks a drained frame), and an
\* AddFrame while Recording whose write fails (the frame is stored and the file
\* does not grow).
C17_SinkFailureLeavesIdle ==
    [][/\ (ret'.op = "StartRecording"
           /\ ret'.val \in {"SinkOpenFailed", "SinkNotOpened"})
          => (~isRecording' /\ writer' = 0)
       /\ (Len(sinks') = Len(sinks) + 1
           /\ sinks'[Len(sinks')].frames # PreBufferFrames(ring, cur))
          => ~isRecording'
       /\ (added' = added + 1 /\ ShouldWrite(added') /\ sinks' = sinks)
          => ~isRecording']_vars

\* C18: a Detect call made less than detectionInterval after the previous
\* evaluation of the background model, whether or not that evaluation reported
\* motion, returns motionDetected = false and changes nothing in the detector
\* (so two evaluations are never closer than detectionInterval).
C18_DetectRateLimited ==
    [][(det'.out # "none"
        /\ det.lastEvaluation # ZeroTime
        /\ det.now - det.lastEvaluation < det.interval)
       => (/\ det'.out = "skipped"
           /\ det'.lastEvaluation = det.lastEvaluation
           /\ det'.lastDetection = det.lastDetection)]_vars

\* C19: the broadcast of a tick's encoded frame never waits: whatever the
\* queues hold, the loop's send step can be taken, and it leaves in every
\* subscriber's queue with room (fewer than 5 frames) that frame at the end,
\* after the frames of earlier ticks; a subscriber whose queue is full keeps its
\* queue as it was and misses that frame only; the loop is back at its select.
C19_FanOutNeverBlocks ==
    /\ [](fan.loop = "send" => ENABLED FanOutSend)
    /\ [][(fan.loop = "send" /\ fan'.loop = "select")
          => \A c \in Chans :
                LET q == fan.chan[c].queue
                    r == fan'.chan[c].queue
                IN IF ~Subscribed(c) THEN r = q
                   ELSE IF Len(q) < QueueCapacity
                   THEN /\ r = Append(q, fan.tick)
                        /\ \A i \in 1..Len(q) : q[i] < fan.tick
                   ELSE r = q]_vars

\* a tick whose frame one subscriber missed, its queue being full, while the
\* other subscriber got it
C19_Witness ==
    /\ fan.loop = "select"
    /\ \E c, b \in Chans :
          /\ Subscribed(c) /\ Subscribed(b)
          /\ Len(fan.chan[c].queue) = QueueCapacity
          /\ fan.chan[c].queue[QueueCapacity] = fan.tick - 1
          /\ fan.chan[b].queue # <<>>
          /\ fan.chan[b].queue[Len(fan.chan[b].queue)] = fan.tick

\* C20: StartRecording, whether it succeeds or fails, leaves the ring as it
\* was: the same slots occupied by the same frames, the same write cursor, and
\* no buffered frame released.
C20_DrainKeepsRing ==
    [][ret'.op = "StartRecording"
       => (ring' = ring /\ cur' = cur /\ closeCount' = closeCount)]_vars

\* a recording just started from a full ring of several frames, all still in
\* their slots and none released
C20_Witness ==
    /\ ret = Ret("StartRecording", "ok")
    /\ isRecording
    /\ Capacity >= 2
    /\ Len(sinks[writer].frames) = Capacity
    /\ \A i \in 1..Capacity : IsFrame(ring[i]) /\ closeCount[ring[i]] = 0

\* C29 (as stated): the ring has round(fps x preBufferSeconds) slots (halves
\* rounded up), at construction and after every operation.
C29_CapacityRounded ==
    2 * FpsScale * Capacity <= 2 * fps * pre + FpsScale
    /\ 2 * fps * pre + FpsScale < 2 * FpsScale * (Capacity + 1)

\* C29 (amended): the ring has int(fps) x preBufferSeconds slots, fps truncated
\* to a whole number, at construction and after every operation; no operation
\* changes fps or the two buffer lengths; and an Update of a Recording recorder
\* ends the session exactly when the frames counted since the last motion
\* reach int(fps) x postBufferSeconds.
C29_CapacityTruncated ==
    /\ [](Capacity = (fps \div FpsScale) * pre)
    /\ [][/\ Len(ring') = Len(ring)
          /\ <<fps, pre, post>>' = <<fps, pre, post>>
          /\ (ret'.op = "Update" /\ isRecording)
             => (~isRecording' <=>
                   framesSinceMotion + 1 >= (fps \div FpsScale) * post)]_vars

\* a recorder with fps between two whole numbers whose ring of two slots has
\* wrapped around, and whose session has just expired
C29_Witness ==
    /\ fps % FpsScale # 0
    /\ Capacity = 2
    /\ added > Capacity
    /\ ret = Ret("Update", "true")

\* C30: between recorder operations the recording flag is true exactly when a
\* sink is open, and the open sink is the recorder's writer; a sink that has
\* been closed is never written or reopened; and a session that starts gets a
\* sink opened for it, not one an earlier session used.
C30_RecordingIffSinkOpen ==
    /\ [](/\ isRecording <=> writer # 0
          /\ \A i \in 1..Len(sinks) : sinks[i].open <=> i = writer)
    /\ [][/\ \A i \in 1..Len(sinks) : ~sinks[i].open => sinks'[i] = sinks[i]
          /\ (~isRecording /\ isRecording')
             => (/\ Len(sinks') = Len(sinks) + 1
                 /\ writer' = Len(sinks')
                 /\ \A i \in 1..Len(sinks) : sinks'[i] = sinks[i])]_vars

\* a second session is being written to its own sink, the first session's sink
\* closed with the frames it had when its session ended
C30_Witness ==
    /\ Len(sinks) = 2
    /\ isRecording
    /\ writer = 2
    /\ ~sinks[1].open
    /\ ret.op = "AddFrame"
    /\ sinks[2].frames # <<>>
    /\ sinks[2].frames[Len(sinks[2].frames)] = added
    /\ \A j \in 1..Len(sinks[1].frames) : sinks[1].frames[j] < added

\* C25: once a monitor's stop signal has been sent, its loop begins no further
\* tick body: from its select it goes nowhere but to its exit (the tick body it
\* was executing when the signal came is finished first).
C25_NoTickAfterStopSignal ==
    [][\A m \in Mons :
          (mon[m].stopClosed /\ mon[m].loop = "select")
          => mon'[m].loop \in {"select", "done"}]_vars

InAddFrame(t) == pc[t].at \in {"locked", "released", "stored", "advanced", "written"}

\* C21: no frame stored in the ring is released twice, and once Close has
\* returned every frame ever stored has been released once (none is leaked);
\* while the recorder is open a stored frame is either held in a slot and not
\* released, or evicted and released once.
C21_FramesReleasedOnce ==
    /\ \A k \in 1..MaxFrames : closeCount[k] <= 1
    /\ closed => \A k \in 1..added : closeCount[k] = 1

\* C27: the recorder's mutex serializes every access to the ring, the writer,
\* the recording flag and the counter: at most one caller is inside a locked
\* section, and no operation works on the ring while a caller is inside one.
C27_LockSerializesRecorder ==
    /\ \A t, u \in Tasks : (InAddFrame(t) /\ InAddFrame(u)) => t = u
    /\ \A t \in Tasks : InAddFrame(t) => mu = t
    /\ (cam.drain >= 0 /\ cam.drain < Capacity) => \A t \in Tasks : ~InAddFrame(t)

\* C22: a tick whose frame read failed makes no call on the recorder, the
\* detector or the subscribers: the loop goes to the reconnect and back to its
\* select, and its steps leave the ring, the recording state, the sink, the
\* frames-since-motion counter, the detector and the subscriber queues as they
\* were.
C22_FailedReadSkipsTick ==
    /\ [](cam.read = "failed"
          => (cam.calls = <<>> /\ cam.loop \in {"reconnect", "select", "done"}))
    /\ [][(cam'.loop # cam.loop /\ cam'.read = "failed")
          => (/\ <<ring, cur, added, closeCount>>' = <<ring, cur, added, closeCount>>
              /\ <<isRecording, writer, sinks>>' = <<isRecording, writer, sinks>>
              /\ framesSinceMotion' = framesSinceMotion
              /\ det' = det
              /\ fan' = fan)]_vars

\* a tick's read has failed while the recorder is Recording with frames in its
\* ring, and the loop is back at its select after the reconnect
C22_Witness ==
    /\ cam.read = "failed"
    /\ cam.loop = "select"
    /\ cam.open
    /\ isRecording
    /\ added >= 2
    /\ framesSinceMotion >= 1

\* C23: a tick whose read succeeded makes its calls in this order: AddFrame
\* once, the fan-out, then, only when the flag was read as enabled, Detect, and
\* only when Detect reported motion, StartRecording (left out when the recorder
\* is already Recording, where it would change nothing) followed by OnMotion,
\* then Update once, in every case.
C23_TickOrder ==
    (cam.loop = "select" /\ cam.read = "ok")
    => cam.calls \in {<<"AddFrame", "FanOut", "Update">>,
                      <<"AddFrame", "FanOut", "Detect", "Update">>,
                      <<"AddFrame", "FanOut", "Detect", "Motion", "StartRecording",
                        "OnMotion", "Update">>,
                      <<"AddFrame", "FanOut", "Detect", "Motion", "OnMotion",
                        "Update">>}

\* a tick has ended that started a recording on motion, after an earlier tick
C23_Witness ==
    /\ cam.loop = "select"
    /\ cam.read = "ok"
    /\ cam.calls = <<"AddFrame", "FanOut", "Detect", "Motion", "StartRecording",
                     "OnMotion", "Update">>
    /\ isRecording
    /\ added >= 2

\* C24: the Mat ReadFrame returned in a tick has been released exactly once when
\* the loop is back at its select or has exited, on every path through the
\* tick.
C24_TickFrameReleasedOnce ==
    (cam.loop \in {"select", "done"} /\ cam.read # "none") => cam.mat = 1

\* C26: stopMonitor releases the resources after the loop has exited, in the
\* order Frame Source, Motion Classifier, recorder (finalizing the recording),
\* and the ring's frames last.
C26_ReleaseOrderAfterLoopExit ==
    /\ [](/\ cam.stop = "detector" => ~cam.open
          /\ cam.drain >= 0 => (cam.stop = "detector" /\ ~isRecording)
          /\ closed => cam.drain >= 0)
    /\ [][(\/ cam'.stop \in {"stream", "detector"} /\ cam'.stop # cam.stop
           \/ cam'.drain # cam.drain
           \/ closed' # closed)
          => cam.loop = "done"]_vars

\* C31: once stopMonitor has closed the monitor's stream, its detector or its
\* recorder, the loop makes no further call on that object: no ReadFrame or
\* Reconnect after stream.Close(), no Detect after detector.Close(), no
\* AddFrame, IsRecording, StartRecording, OnMotion or Update after
\* recorder.Close().
C31_NoUseAfterClose ==
    [][/\ cam.stop \in {"stream", "detector"}
          => ~(\/ cam.loop = "select" /\ cam'.loop \in {"addFrame", "reconnect"}
               \/ cam.loop = "reconnect" /\ cam'.loop = "select")
       /\ cam.stop = "detector"
          => ~(cam.loop = "detect" /\ cam'.loop # "detect")
       /\ closed
          => ~(/\ cam.loop \in {"addFrame", "isRecording", "start", "onMotion", "update"}
               /\ cam'.loop # cam.loop)]_vars

\* C32: when stopMonitor has run to its end and the loop has exited, the stream
\* is closed, the recorder is not recording, and no sink is open.
C32_StoppedMonitorHoldsNothing ==
    (closed /\ cam.loop = "done")
    => (/\ ~cam.open
        /\ ~isRecording
        /\ writer = 0
        /\ \A i \in 1..Len(sinks) : ~sinks[i].open)

\* C33: while the motion-detection flag is off and no DisableMotionDetection
\* call is under way, no recording starts.
C33_NoRecordingStartsWhileDisabled ==
    [][(~cam.enabled /\ cam.dis = "none" /\ ~isRecording) => ~isRecording']_vars

\* C34: a file is handed to the conversion only by a step that takes the
\* recorder from Recording to Idle, which hands off the file of the session it
\* ends, once; a Stop, Close or Update that finds the recorder Idle hands off
\* nothing.
C34_HandOffOncePerSession ==
    [][/\ handoffs' # handoffs
          => (/\ isRecording /\ ~isRecording'
              /\ handoffs' = Append(handoffs, sinks[writer].file))
       /\ (isRecording /\ ~isRecording') => Len(handoffs') = Len(handoffs) + 1]_vars

\* C35: no two recording sessions write to the same path.
C35_SessionPathsDistinct ==
    \A i, j \in 1..Len(sinks) : i # j => sinks[i].file # sinks[j].file

\* C36: of the monitors made for one camera name, at most one has a loop that
\* has been started and has not returned.
C36_OneLoopPerCamera ==
    \A a, b \in Mons :
       (a # b /\ mon[a].name # 0 /\ mon[a].name = mon[b].name)
       => (mon[a].loop \in {"none", "done"} \/ mon[b].loop \in {"none", "done"})

\* C37: a stopMonitor call goes past its running test, to close(stopChan),
\* only on a monitor whose stop channel has not been closed: no channel is
\* closed twice, whatever StartCamera, StopCamera and Stop calls are made.
C37_StopChannelClosedOnce ==
    [][\A m \in Mons : (ctl'.m = m /\ ctl.m # m) => ~mon[m].stopClosed]_vars

\* StopCamera has just been refused on a camera whose monitor Manager.Stop had
\* stopped and left in the registry
C37_Witness ==
    \E n \in Names :
       /\ reply = Reply("StopCamera", n, "NotRunning")
       /\ Exists(n)
       /\ mon[monitors[n]].stopClosed

\* C38: the loop sends only on channels that are not closed; a channel is
\* closed by an Unsubscribe that finds it open, so at most once, and a further
\* Unsubscribe of it changes nothing; and once Unsubscribe has returned for a
\* channel, no frame is put into it any more (its queue can only be read).
C38_SubscriberChannelsSafe ==
    /\ [](\A c \in Chans : Subscribed(c) => fan.chan[c].state # "closed")
    /\ [][\A c \in Chans :
             /\ (fan'.chan[c].state = "closed" /\ fan.chan[c].state # "closed")
                => (fan.chan[c].state = "open" /\ Subscribed(c))
             /\ fan.chan[c].state = "closed" => fan'.chan[c].state = "closed"
             /\ fan.chan[c].state \in {"closed", "left"}
                => \/ fan'.chan[c].queue = fan.chan[c].queue
                   \/ /\ fan.chan[c].queue # <<>>
                      /\ fan'.chan[c].queue = Tail(fan.chan[c].queue)]_vars

\* C39: a recorder that is Recording once the scene has come to rest is Idle
\* again, its sink closed, some time later, the camera running all the while
\* (or the model's supply of frames has run out before).
C39_RecordingEnds ==
    (isRecording /\ cam.quiet) ~> ((~isRecording /\ writer = 0) \/ added = MaxFrames)

\* the path is one of the configured recording directories or lies below one
InsideRecordingDir(path) ==
    \E i \in 1..Len(RecordingPaths) :
       /\ Len(Abs(path)) >= Len(Abs(RecordingPaths[i]))
       /\ SubSeq(Abs(path), 1, Len(Abs(RecordingPaths[i]))) = Abs(RecordingPaths[i])

\* C40: a play, download or delete request is answered 403 exactly when its
\* file's absolute path is neither a configured recording directory nor below
\* one, and then nothing is read and nothing is deleted.
C40_HandlersStayInsideRecordingDirs ==
    [][(srv' # srv /\ srv'.given)
       => IF InsideRecordingDir(srv'.file)
          THEN srv'.code # "403"
          ELSE /\ srv'.code = "403"
               /\ srv'.read = {}
               /\ srv'.disk = srv.disk]_vars
====
